---- MODULE Spec2Model ----
(***************************************************************************)
(* Invoice ingestion pipeline of mfn-mvp (app/core/rag_pipeline.py):      *)
(* InvoiceProcessor.process_and_upload_invoice with its helpers, run by   *)
(* several upload requests against one shared search index.               *)
(*                                                                         *)
(* Each external call of a run (index query, document analysis, index     *)
(* upload) is one atomic step, together with the local code up to the     *)
(* next call.  Spec is one server process: its event loop runs an         *)
(* ingestion to its return before the next starts (the coroutine never    *)
(* suspends between its blocking SDK calls).  SpecConc is NumWorkers      *)
(* server processes on the same index, their steps interleaved.           *)
(***************************************************************************)
EXTENDS Integers, Sequences, FiniteSets, TLC

\* ------------------------------------------------------------------ bounds
NumWorkers  == 2      \* server processes sharing the index
MaxRuns     == 3      \* ingestions started in one behaviour
MaxDecimals == 2      \* decimal digits kept by the fixed-point floats

Workers  == 1..NumWorkers
\* sample uploads (byte strings) and owner tags
Files    == {<<37, 80, 68, 70>>, <<37, 80, 68, 71>>}
Partners == {"JONI", "HERNAN"}

\* ------------------------------------------------------- program constants
MODELO_EMITIDAS  == "opendoors-emitidas-custom"
MODELO_RECIBIDAS == "opendoors-recibidas-custom"
\* confidences are held in hundredths: 0.95 is 95
ConfidenceThreshold == 95

\* Python's None for optional values: an optional is <<>> or <<x>>
None    == <<>>
Some(x) == <<x>>

\* ------------------------------------------------------------ small helpers
RECURSIVE Pow10(_)
Pow10(n) == IF n = 0 THEN 1 ELSE 10 * Pow10(n - 1)
Scale == Pow10(MaxDecimals)

Digits == {"0", "1", "2", "3", "4", "5", "6", "7", "8", "9"}
DigitVal(c) ==
  CASE c = "0" -> 0 [] c = "1" -> 1 [] c = "2" -> 2 [] c = "3" -> 3
    [] c = "4" -> 4 [] c = "5" -> 5 [] c = "6" -> 6 [] c = "7" -> 7
    [] c = "8" -> 8 [] c = "9" -> 9

RECURSIVE IntOf(_)
IntOf(s) == IF s = <<>> THEN 0
            ELSE 10 * IntOf(SubSeq(s, 1, Len(s) - 1)) + DigitVal(s[Len(s)])

\* str.replace(old, "") and str.replace(old, new) on one-character strings
Remove(s, c)     == SelectSeq(s, LAMBDA x : x # c)
Replace(s, a, b) == [i \in 1..Len(s) |-> IF s[i] = a THEN b ELSE s[i]]

\* str.strip(): leading and trailing whitespace goes
Whitespace == {" ", "\n", "\t"}

RECURSIVE Strip(_)
Strip(s) ==
  IF s = <<>> THEN s
  ELSE IF s[1] \in Whitespace THEN Strip(Tail(s))
  ELSE IF s[Len(s)] \in Whitespace THEN Strip(SubSeq(s, 1, Len(s) - 1))
  ELSE s

\* float(text) on the alphabet {digits, ".", "-", "+", " ", other}: value in
\* units of 1/Scale, or a ValueError
ParseFloat(text) ==
  LET t      == Strip(text)
      signed == t # <<>> /\ t[1] \in {"-", "+"}
      body   == IF signed THEN Tail(t) ELSE t
      dots   == {i \in 1..Len(body) : body[i] = "."}
      dot    == IF dots = {} THEN Len(body) + 1 ELSE CHOOSE i \in dots : TRUE
      whole  == SubSeq(body, 1, dot - 1)
      frac   == SubSeq(body, dot + 1, Len(body))
      ok     == /\ \A i \in 1..Len(body) : body[i] \in Digits \cup {"."}
                /\ Cardinality(dots) <= 1
                /\ Len(whole) + Len(frac) > 0
                /\ Len(frac) <= MaxDecimals
      mag    == IntOf(whole) * Scale + IntOf(frac) * Pow10(MaxDecimals - Len(frac))
  IN  IF ok THEN [ok |-> TRUE, value |-> IF signed /\ t[1] = "-" THEN 0 - mag ELSE mag]
      ELSE [ok |-> FALSE, value |-> 0]

\* ------------------------------------------------ the analyzer's answers
TotalGood == <<"$", "1", ".", "2", "3", "4", ",", "5", "6">>
TaxGood   == <<"2", "5", "9", ",", "2", "6">>
TotalBad  == <<"1", ",", "2", ",", "3">>

FieldsFull    == [VendorName |-> Some("ACME"), InvoiceDate |-> Some("2024-01-31"),
                  InvoiceTotal |-> Some(TotalGood), TotalTax |-> Some(TaxGood)]
FieldsPartial == [VendorName |-> None, InvoiceDate |-> Some(""),
                  InvoiceTotal |-> Some(TotalBad), TotalTax |-> None]
\* document.fields is None: the analyzer extracted no field dictionary
FieldsNone    == [none |-> TRUE]
FieldVariants == {FieldsFull, FieldsPartial, FieldsNone}

DocTypes    == {MODELO_EMITIDAS, MODELO_RECIBIDAS, "other"}
Confidences == (ConfidenceThreshold - 1)..(ConfidenceThreshold + 1)
Docs        == [doc_type : DocTypes, confidence : Confidences, fields : FieldVariants]
\* second documents of a result: one per model, each acceptable on its own
TrailingDocs == {[doc_type |-> m, confidence |-> ConfidenceThreshold + 1, fields |-> FieldsFull]
                   : m \in {MODELO_EMITIDAS, MODELO_RECIBIDAS}}
DocLists    == {<<>>} \cup {<<d>> : d \in Docs}
                      \cup {<<d, e>> : d \in Docs, e \in TrailingDocs}

\* what begin_analyze_document(...).result() does: raise, or return a result
AnalyzerResponses ==
  {[raises |-> x, documents |-> <<>>] : x \in {"HttpResponseError", "Exception"}}
    \cup {[raises |-> "no", documents |-> dl] : dl \in DocLists}

\* what upload_documents does: raise, or return a list of indexing results
UploadResponses ==
  {[raises |-> TRUE, results |-> <<>>]}
    \cup {[raises |-> FALSE, results |-> rs] :
            rs \in {<<>>, <<[succeeded |-> TRUE]>>, <<[succeeded |-> FALSE]>>}}

\* ------------------------------------------------------------------ state
VARIABLES
  index,            \* the search index: a set of stored documents
  runs,             \* ingestions started so far
  ingested,         \* history: files whose ingestion has returned success
  pc,               \* position of each worker in process_and_upload_invoice
  run_no,           \* ordinal of the worker's current run
  document_bytes,   \* local: the bytes read from the file
  partner_name,     \* argument: owner tag
  file_hash,        \* local: optional fingerprint of document_bytes
  invoice_type,     \* local: "None", "ingreso" or "egreso"
  invoice_data,     \* local: the extracted fields (a dict)
  structured_document, \* local: optional record built for the index
  outcome,          \* optional dict returned by the call
  dupLog,           \* history: what the duplicate check saw and answered
  analyzerLog,      \* history: analyzer calls of the run, in order
  uploadLog,        \* history: upload attempts of the run, in order
  startLog,         \* history: the index and the earlier successes at the start
  probe,            \* one call of a helper on its own: its arguments and its result
  agent             \* each worker's run of the question graph (AgentGraph.run)

vars == <<index, runs, ingested, pc, run_no, document_bytes, partner_name,
          file_hash, invoice_type, invoice_data, structured_document, outcome,
          dupLog, analyzerLog, uploadLog, startLog, probe, agent>>

\* ------------------------------------------------------------ InvoiceProcessor
\* hashlib.sha256(file_bytes).hexdigest(): a fixed function of the bytes,
\* taken to be free of collisions on Files
_calculate_file_hash(file_bytes) == <<"sha256", file_bytes>>

\* search(filter="file_hash eq '<h>'").get_count()
GetCount(idx, h) == Cardinality({d \in idx : d.file_hash = h})

\* mutants of _is_duplicate: count > 1 for count > 0; the except clause answering False
_is_duplicate_more_than_one(idx, h, search_raises) ==
  IF search_raises THEN TRUE ELSE GetCount(idx, h) > 1

_is_duplicate_fail_open(idx, h, search_raises) ==
  IF search_raises THEN FALSE ELSE GetCount(idx, h) > 0

_is_duplicate(idx, h, search_raises) ==
  IF search_raises THEN TRUE ELSE GetCount(idx, h) > 0

\* mutants of _analyze_with_model: >= for >; HttpResponseError raised again
_analyze_with_model_at_least(model_id, response) ==
  IF response.raises = "HttpResponseError" THEN [raised |-> FALSE, value |-> None]
  ELSE IF response.raises = "Exception" THEN [raised |-> TRUE, value |-> None]
  ELSE IF response.documents # <<>>
          /\ response.documents[1].doc_type = model_id
          /\ response.documents[1].confidence >= ConfidenceThreshold
       THEN [raised |-> FALSE, value |-> Some(response)]
       ELSE [raised |-> FALSE, value |-> None]

_analyze_with_model_reraise(model_id, response) ==
  IF response.raises # "no" THEN [raised |-> TRUE, value |-> None]
  ELSE IF response.documents # <<>>
          /\ response.documents[1].doc_type = model_id
          /\ response.documents[1].confidence > ConfidenceThreshold
       THEN [raised |-> FALSE, value |-> Some(response)]
       ELSE [raised |-> FALSE, value |-> None]

\* mutant of _analyze_with_model: every exception is swallowed
_analyze_with_model_swallow(model_id, response) ==
  IF response.raises # "no" THEN [raised |-> FALSE, value |-> None]
  ELSE IF response.documents # <<>>
          /\ response.documents[1].doc_type = model_id
          /\ response.documents[1].confidence > ConfidenceThreshold
       THEN [raised |-> FALSE, value |-> Some(response)]
       ELSE [raised |-> FALSE, value |-> None]

\* value returned by _analyze_with_model, or the exception it lets through
_analyze_with_model(model_id, response) ==
  IF response.raises = "HttpResponseError" THEN [raised |-> FALSE, value |-> None]
  ELSE IF response.raises = "Exception" THEN [raised |-> TRUE, value |-> None]
  ELSE IF response.documents # <<>>
       THEN LET document == response.documents[1]
            IN  IF document.doc_type = model_id
                   /\ document.confidence > ConfidenceThreshold
                THEN [raised |-> FALSE, value |-> Some(response)]
                ELSE [raised |-> FALSE, value |-> None]
       ELSE [raised |-> FALSE, value |-> None]

clean_currency(value) ==
  IF value = None THEN 0
  ELSE LET text == Replace(Remove(Strip(Remove(value[1], "$")), "."), ",", ".")
           f    == ParseFloat(text)
       IN  IF f.ok THEN f.value ELSE 0

get_field_value(fields, field_name) == fields[field_name]

\* mutant of OrNA: only None gets the default, the empty string is kept
OrNA_none_only(opt) == IF opt # None THEN opt[1] ELSE "N/A"

\* value or "N/A": None and the empty string are both falsy
OrNA(opt) == IF opt # None /\ opt[1] # "" THEN opt[1] ELSE "N/A"

\* lines 143-146 raise an AttributeError: the result is None, or its first
\* document has no fields
ExtractionFails(result) ==
  \/ result = None
  \/ result[1].documents # <<>> /\ result[1].documents[1].fields = FieldsNone

\* the argument is the optional analysis result; when the extraction raises,
\* the except clause answers with the defaults
_extract_invoice_fields(result) ==
  IF ExtractionFails(result)
  THEN [VendorName |-> "N/A", InvoiceDate |-> "N/A", InvoiceTotal |-> 0, TotalTax |-> 0]
  ELSE IF result[1].documents = <<>> THEN <<>>
  ELSE LET fields == result[1].documents[1].fields
       IN  [VendorName   |-> OrNA(get_field_value(fields, "VendorName")),
            InvoiceDate  |-> OrNA(get_field_value(fields, "InvoiceDate")),
            InvoiceTotal |-> clean_currency(get_field_value(fields, "InvoiceTotal")),
            TotalTax     |-> clean_currency(get_field_value(fields, "TotalTax"))]

DictGet(d, k, default) == IF k \in DOMAIN d THEN d[k] ELSE default

\* mutant of json_dumps: the amounts are left out of the text
json_dumps_without_amounts(d) ==
  LET keys == SelectSeq(<<"VendorName", "InvoiceDate">>, LAMBDA k : k \in DOMAIN d)
  IN  [kind |-> "object", members |-> [i \in 1..Len(keys) |-> <<keys[i], d[keys[i]]>>]]

\* json.dumps of the invoice data: the key/value pairs in insertion order
\* a text is held by what a JSON parser reads from it: kind "object" with the
\* members in order, or a kind that is no object
json_dumps(d) ==
  LET keys == SelectSeq(<<"VendorName", "InvoiceDate", "InvoiceTotal", "TotalTax">>,
                        LAMBDA k : k \in DOMAIN d)
  IN  [kind |-> "object", members |-> [i \in 1..Len(keys) |-> <<keys[i], d[keys[i]]>>]]

\* mutant of _create_structured_document: the key is taken from the source
\* file in place of a fresh uuid
_create_structured_document_key_from_file(id, data, file_path, type, partner, h) ==
  [id            |-> file_path,
   content       |-> json_dumps(data),
   VendorName    |-> DictGet(data, "VendorName", "N/A"),
   InvoiceDate   |-> DictGet(data, "InvoiceDate", "N/A"),
   InvoiceTotal  |-> DictGet(data, "InvoiceTotal", 0),
   TotalTax      |-> DictGet(data, "TotalTax", 0),
   source_file   |-> file_path,
   document_type |-> "invoice",
   InvoiceType   |-> type,
   PartnerName   |-> partner,
   file_hash     |-> h]

\* mutant of _create_structured_document: the document type is written into
\* InvoiceType and the classification into document_type
_create_structured_document_types_swapped(id, data, file_path, type, partner, h) ==
  [id            |-> id,
   content       |-> json_dumps(data),
   VendorName    |-> DictGet(data, "VendorName", "N/A"),
   InvoiceDate   |-> DictGet(data, "InvoiceDate", "N/A"),
   InvoiceTotal  |-> DictGet(data, "InvoiceTotal", 0),
   TotalTax      |-> DictGet(data, "TotalTax", 0),
   source_file   |-> file_path,
   document_type |-> type,
   InvoiceType   |-> "invoice",
   PartnerName   |-> partner,
   file_hash     |-> h]

\* mutant of _create_structured_document: the fingerprint of an empty buffer
\* is stored in place of the file's
_create_structured_document_empty_hash(id, data, file_path, type, partner, h) ==
  [id            |-> id,
   content       |-> json_dumps(data),
   VendorName    |-> DictGet(data, "VendorName", "N/A"),
   InvoiceDate   |-> DictGet(data, "InvoiceDate", "N/A"),
   InvoiceTotal  |-> DictGet(data, "InvoiceTotal", 0),
   TotalTax      |-> DictGet(data, "TotalTax", 0),
   source_file   |-> file_path,
   document_type |-> "invoice",
   InvoiceType   |-> type,
   PartnerName   |-> partner,
   file_hash     |-> _calculate_file_hash(<<>>)]

\* mutant of _create_structured_document: the owner is a fixed partner
_create_structured_document_fixed_partner(id, data, file_path, type, partner, h) ==
  [id            |-> id,
   content       |-> json_dumps(data),
   VendorName    |-> DictGet(data, "VendorName", "N/A"),
   InvoiceDate   |-> DictGet(data, "InvoiceDate", "N/A"),
   InvoiceTotal  |-> DictGet(data, "InvoiceTotal", 0),
   TotalTax      |-> DictGet(data, "TotalTax", 0),
   source_file   |-> file_path,
   document_type |-> "invoice",
   InvoiceType   |-> type,
   PartnerName   |-> "JONI",
   file_hash     |-> h]

_create_structured_document(id, data, file_path, type, partner, h) ==
  [id            |-> id,
   content       |-> json_dumps(data),
   VendorName    |-> DictGet(data, "VendorName", "N/A"),
   InvoiceDate   |-> DictGet(data, "InvoiceDate", "N/A"),
   InvoiceTotal  |-> DictGet(data, "InvoiceTotal", 0),
   TotalTax      |-> DictGet(data, "TotalTax", 0),
   source_file   |-> file_path,
   document_type |-> "invoice",
   InvoiceType   |-> type,
   PartnerName   |-> partner,
   file_hash     |-> h]

\* --------------------------------------------------------------- outcomes
DuplicateOutcome ==
  [success |-> FALSE, error |-> "duplicate",
   message |-> "Esta factura ya fue cargada anteriormente."]

ClassificationError ==
  "No se pudo analizar la factura con ninguno de los modelos disponibles."

\* the except clause of process_and_upload_invoice: str(e) of what was raised
ExceptionOutcome(text) == [success |-> FALSE, error |-> text]

UploadOutcome(ok, data, type) ==
  [success |-> ok, invoice_data |-> data, invoice_type |-> type]

\* mutant of upload_success: any non-empty result counts as a success
upload_success_nonempty(upload_result) == Len(upload_result) > 0

\* mutant of upload_success: the succeeded flag read negated
upload_success_negated(upload_result) ==
  Len(upload_result) > 0 /\ ~upload_result[1].succeeded

upload_success(upload_result) ==
  Len(upload_result) > 0 /\ upload_result[1].succeeded

\* mutant of ClassifiedAs: the two tags are exchanged
ClassifiedAs_swapped(model_id) ==
  IF model_id = MODELO_EMITIDAS THEN "egreso" ELSE "ingreso"

\* lines 108 and 115: the tag given after the profile that was accepted
ClassifiedAs(model_id) ==
  IF model_id = MODELO_EMITIDAS THEN "ingreso" ELSE "egreso"

\* mutant of NeedsSecondProfile: the second profile is tried unconditionally
NeedsSecondProfile_always(result) == TRUE

\* line 112: if not analysis_result
NeedsSecondProfile(result) == result = None

\* mutant of ClassificationFailed: the guard before the record is built is gone
ClassificationFailed_never(result, type) == FALSE

\* line 119: if not analysis_result or not invoice_type
ClassificationFailed(result, type) == result = None \/ type = "None"

\* line 126, the upload action of the index service: the document replaces
\* the stored document of the same key, or is added
upload_documents(idx, document) ==
  {d \in idx : d.id # document.id} \cup {document}

\* the index service stores the document exactly when it reports success
Stored(response) ==
  ~response.raises /\ response.results # <<>> /\ response.results[1].succeeded

\* ------------------------------------------------------------------- Init
NoProbe == [kind |-> "none"]

\* no question has been put to the graph
NoRun ==
  [node |-> "idle", state |-> <<>>, trace |-> <<>>, llmLog |-> <<>>,
   queryLog |-> <<>>, returned |-> None]

InitLocals ==
  /\ agent = [w \in Workers |-> NoRun]
  /\ runs = 0
  /\ ingested = {}
  /\ pc = [w \in Workers |-> "idle"]
  /\ run_no = [w \in Workers |-> 0]
  /\ document_bytes = [w \in Workers |-> <<>>]
  /\ partner_name = [w \in Workers |-> "None"]
  /\ file_hash = [w \in Workers |-> None]
  /\ invoice_type = [w \in Workers |-> "None"]
  /\ invoice_data = [w \in Workers |-> <<>>]
  /\ structured_document = [w \in Workers |-> None]
  /\ outcome = [w \in Workers |-> None]
  /\ dupLog = [w \in Workers |-> <<>>]
  /\ analyzerLog = [w \in Workers |-> <<>>]
  /\ uploadLog = [w \in Workers |-> <<>>]
  /\ startLog = [w \in Workers |-> [index |-> {}, ingested |-> {}]]

InitPipeline == index = {} /\ InitLocals

Init == InitPipeline /\ probe = NoProbe

\* mutant of Return: the result is set but the run goes on from where it was
Return_without_stop(w, result) ==
  /\ outcome' = [outcome EXCEPT ![w] = Some(result)]
  /\ UNCHANGED <<pc, ingested>>

Return(w, result) ==
  /\ outcome' = [outcome EXCEPT ![w] = Some(result)]
  /\ pc' = [pc EXCEPT ![w] = "done"]
  /\ ingested' = IF result.success THEN ingested \cup {document_bytes[w]} ELSE ingested

\* mutant of Except: after an error of a service the analysis is tried again
Except_retry(w, kind, text) ==
  IF kind = "Exception"
  THEN /\ pc' = [pc EXCEPT ![w] = "analyze_emitidas"]
       /\ UNCHANGED <<outcome, ingested>>
  ELSE Return(w, ExceptionOutcome(text))

\* mutant of Except: the clause catches ValueError alone, anything else
\* leaves the call as an exception
Except_value_error_only(w, kind, text) ==
  IF kind = "ValueError"
  THEN Return(w, ExceptionOutcome(text))
  ELSE /\ pc' = [pc EXCEPT ![w] = "raised"]
       /\ UNCHANGED <<outcome, ingested>>

\* lines 137-139: except Exception as e, return success False with str(e)
Except(w, kind, text) == Return(w, ExceptionOutcome(text))

\* process_and_upload_invoice is called: lines 93-99, open and read the file,
\* compute the fingerprint
ReadAndHash(w, bytes, partner, readable) ==
  /\ pc[w] \in {"idle", "done"}
  /\ runs < MaxRuns
  /\ runs' = runs + 1
  /\ run_no' = [run_no EXCEPT ![w] = runs + 1]
  /\ partner_name' = [partner_name EXCEPT ![w] = partner]
  /\ startLog' = [startLog EXCEPT ![w] = [index |-> index, ingested |-> ingested]]
  /\ invoice_type' = [invoice_type EXCEPT ![w] = "None"]
  /\ invoice_data' = [invoice_data EXCEPT ![w] = <<>>]
  /\ structured_document' = [structured_document EXCEPT ![w] = None]
  /\ dupLog' = [dupLog EXCEPT ![w] = <<>>]
  /\ analyzerLog' = [analyzerLog EXCEPT ![w] = <<>>]
  /\ uploadLog' = [uploadLog EXCEPT ![w] = <<>>]
  /\ IF readable
     THEN /\ document_bytes' = [document_bytes EXCEPT ![w] = bytes]
          /\ file_hash' = [file_hash EXCEPT ![w] = Some(_calculate_file_hash(bytes))]
          /\ pc' = [pc EXCEPT ![w] = "check_duplicate"]
          /\ outcome' = [outcome EXCEPT ![w] = None]
          /\ UNCHANGED ingested
     ELSE /\ document_bytes' = [document_bytes EXCEPT ![w] = <<>>]
          /\ file_hash' = [file_hash EXCEPT ![w] = None]
          /\ Except(w, "OSError", "open failed")
  /\ UNCHANGED <<index, probe, agent>>

\* one server process: worker 1, one ingestion at a time
StartSequential ==
  \E bytes \in Files, partner \in Partners, readable \in BOOLEAN :
    ReadAndHash(1, bytes, partner, readable)

\* several server processes: each worker takes one upload
StartConcurrent(w) ==
  \E bytes \in Files, partner \in Partners, readable \in BOOLEAN :
    pc[w] = "idle" /\ ReadAndHash(w, bytes, partner, readable)

\* lines 100-102 with _is_duplicate
CheckDuplicate(w) ==
  \E search_raises \in BOOLEAN :
    LET h   == file_hash[w][1]
        dup == _is_duplicate(index, h, search_raises)
    IN  /\ pc[w] = "check_duplicate"
        /\ dupLog' = [dupLog EXCEPT ![w] =
                        <<[present |-> GetCount(index, h) > 0,
                           raised |-> search_raises, answer |-> dup,
                           file_hash |-> h]>>]
        /\ IF dup
           THEN Return(w, DuplicateOutcome)
           ELSE /\ pc' = [pc EXCEPT ![w] = "analyze_emitidas"]
                /\ UNCHANGED <<outcome, ingested>>
        /\ UNCHANGED <<index, runs, run_no, document_bytes, partner_name, file_hash,
                       invoice_type, invoice_data, structured_document,
                       analyzerLog, uploadLog, startLog, probe, agent>>

LogEntry(model_id, response, res) ==
  [model_id |-> model_id, raises |-> response.raises, accepted |-> res.value # None,
   extraction_failed |-> res.value # None /\ ExtractionFails(res.value),
   fields |-> IF res.value # None THEN res.value[1].documents[1].fields
              ELSE FieldsNone]

\* lines 122-123: extract the fields, build the record
BuildRecord(w, result, type) ==
  LET data == _extract_invoice_fields(result)
  IN  /\ invoice_type' = [invoice_type EXCEPT ![w] = type]
      /\ invoice_data' = [invoice_data EXCEPT ![w] = data]
      /\ structured_document' = [structured_document EXCEPT ![w] =
           Some(_create_structured_document(run_no[w], data, w, type,
                                            partner_name[w], file_hash[w][1]))]
      /\ pc' = [pc EXCEPT ![w] = "upload"]
      /\ UNCHANGED <<outcome, ingested>>

\* lines 104-110 and the test of line 112: first profile
AnalyzeEmitidas(w) ==
  \E response \in AnalyzerResponses :
    LET res  == _analyze_with_model(MODELO_EMITIDAS, response)
        type == IF res.value # None THEN ClassifiedAs(MODELO_EMITIDAS) ELSE "None"
    IN  /\ pc[w] = "analyze_emitidas"
        /\ analyzerLog' = [analyzerLog EXCEPT ![w] =
                             Append(@, LogEntry(MODELO_EMITIDAS, response, res))]
        /\ IF res.raised
           THEN /\ Except(w, "Exception", "analyzer failed")
                /\ UNCHANGED <<invoice_type, invoice_data, structured_document>>
           ELSE IF NeedsSecondProfile(res.value)
           THEN /\ pc' = [pc EXCEPT ![w] = "analyze_recibidas"]
                /\ invoice_type' = [invoice_type EXCEPT ![w] = type]
                /\ UNCHANGED <<invoice_data, structured_document, outcome, ingested>>
           ELSE BuildRecord(w, res.value, type)
        /\ UNCHANGED <<index, runs, run_no, document_bytes, partner_name, file_hash,
                       dupLog, uploadLog, startLog, probe, agent>>

\* lines 113-120: second profile, and the ValueError when none was accepted
AnalyzeRecibidas(w) ==
  \E response \in AnalyzerResponses :
    LET res  == _analyze_with_model(MODELO_RECIBIDAS, response)
        type == IF res.value # None THEN ClassifiedAs(MODELO_RECIBIDAS)
                ELSE invoice_type[w]
    IN  /\ pc[w] = "analyze_recibidas"
        /\ analyzerLog' = [analyzerLog EXCEPT ![w] =
                             Append(@, LogEntry(MODELO_RECIBIDAS, response, res))]
        /\ IF res.raised
           THEN /\ Except(w, "Exception", "analyzer failed")
                /\ UNCHANGED <<invoice_type, invoice_data, structured_document>>
           ELSE IF ClassificationFailed(res.value, type)
           THEN /\ Except(w, "ValueError", ClassificationError)
                /\ UNCHANGED <<invoice_type, invoice_data, structured_document>>
           ELSE BuildRecord(w, res.value, type)
        /\ UNCHANGED <<index, runs, run_no, document_bytes, partner_name, file_hash,
                       dupLog, uploadLog, startLog, probe, agent>>

\* lines 125-135: upload the record and report
UploadDocuments(w) ==
  \E response \in UploadResponses :
    /\ pc[w] = "upload"
    /\ uploadLog' = [uploadLog EXCEPT ![w] = Append(@, response)]
    /\ index' = IF Stored(response)
                THEN upload_documents(index, structured_document[w][1]) ELSE index
    /\ IF response.raises
       THEN Except(w, "Exception", "upload failed")
       ELSE Return(w, UploadOutcome(upload_success(response.results),
                                    invoice_data[w], invoice_type[w]))
    /\ UNCHANGED <<runs, run_no, document_bytes, partner_name, file_hash,
                   invoice_type, invoice_data, structured_document,
                   dupLog, analyzerLog, startLog, probe, agent>>

Step(w) ==
  \/ CheckDuplicate(w)
  \/ AnalyzeEmitidas(w)
  \/ AnalyzeRecibidas(w)
  \/ UploadDocuments(w)

Next == StartSequential \/ Step(1)

Spec == Init /\ [][Next]_vars

\* the endpoint awaits process_and_upload_invoice: when a call of a service
\* returns or raises the run goes on
SpecFair == Init /\ [][Next]_vars /\ WF_vars(Step(1))

NextConc == \E w \in Workers : StartConcurrent(w) \/ Step(w)

SpecConc == Init /\ [][NextConc]_vars

\* ------------------------------------------- _analyze_with_model on its own
InitAnalyze ==
  /\ InitPipeline
  /\ probe \in [kind : {"analyze"}, model_id : {MODELO_EMITIDAS, MODELO_RECIBIDAS},
                response : AnalyzerResponses, returned : {None}]

CallAnalyze ==
  /\ probe.kind = "analyze"
  /\ probe.returned = None
  /\ probe' = [probe EXCEPT !.returned =
                 Some(_analyze_with_model(probe.model_id, probe.response))]
  /\ UNCHANGED <<index, runs, ingested, pc, run_no, document_bytes, partner_name,
                 file_hash, invoice_type, invoice_data, structured_document, outcome,
                 dupLog, analyzerLog, uploadLog, startLog, agent>>

SpecAnalyze == InitAnalyze /\ [][CallAnalyze]_vars

\* =========================================================== question graph
\* A Python string is a sequence of pieces: a whitespace character or a run
\* of other characters; the number format works on single characters.

\* ---------------------------------------------------- json.loads, lines 41-42
\* "{}", the default of result.get("content", "{}")
EmptyObjectText == [kind |-> "object", members |-> <<>>]

\* json.loads(text): a str that is no JSON raises JSONDecodeError, a value
\* that is no str raises TypeError, a JSON object gives a dict, any other JSON
\* value gives a value that is no dict
json_loads(text) ==
  CASE text.kind = "None"    -> [raised |-> "TypeError", is_dict |-> FALSE, value |-> <<>>]
    [] text.kind = "invalid" -> [raised |-> "JSONDecodeError", is_dict |-> FALSE, value |-> <<>>]
    [] text.kind = "object"  ->
         LET m == text.members
             last(k) == CHOOSE i \in 1..Len(m) :
                          m[i][1] = k /\ \A j \in (i + 1)..Len(m) : m[j][1] # k
         IN  [raised |-> "no", is_dict |-> TRUE,
              value |-> [k \in {m[i][1] : i \in 1..Len(m)} |-> m[last(k)][2]]]
    [] OTHER                 -> [raised |-> "no", is_dict |-> FALSE, value |-> <<>>]

\* lines 38-44: the loop of _sum_totals from a running total
RECURSIVE SumLoop(_, _)
SumLoop(search_results, total) ==
  IF search_results = <<>> THEN [raised |-> "no", value |-> total]
  ELSE LET result == Head(search_results)
           loaded == json_loads(DictGet(result, "content", EmptyObjectText))
       IN  IF loaded.raised \in {"JSONDecodeError", "TypeError"}
           THEN SumLoop(Tail(search_results), total)
           ELSE IF ~loaded.is_dict
           THEN [raised |-> "AttributeError", value |-> total]
           ELSE SumLoop(Tail(search_results),
                        total + DictGet(loaded.value, "InvoiceTotal", 0))

\* lines 36-45
_sum_totals(search_results) == SumLoop(search_results, 0)

\* ------------------------------------------------- the index seen by a query
FilterIngreso    == <<"InvoiceType eq 'ingreso'">>
FilterEgreso     == <<"InvoiceType eq 'egreso'">>
FilterJoni       == <<"PartnerName eq 'JONI'">>
FilterJoniEgreso == <<"PartnerName eq 'JONI' and InvoiceType eq 'egreso'">>
ValidFilters     == {FilterIngreso, FilterEgreso, FilterJoni, FilterJoniEgreso}

\* the OData filter as the search service evaluates it on a document
ODataMatches(filter_query, doc) ==
  CASE filter_query = FilterIngreso    -> doc.InvoiceType = "ingreso"
    [] filter_query = FilterEgreso     -> doc.InvoiceType = "egreso"
    [] filter_query = FilterJoni       -> doc.PartnerName = "JONI"
    [] filter_query = FilterJoniEgreso ->
         doc.PartnerName = "JONI" /\ doc.InvoiceType = "egreso"
    [] OTHER -> FALSE

\* the documents of a set as a list, by id
RECURSIVE ListById(_)
ListById(docs) ==
  IF docs = {} THEN <<>>
  ELSE LET first == CHOOSE d \in docs : \A e \in docs : d.id <= e.id
       IN  <<first>> \o ListById(docs \ {first})

\* the call of search_client.search at line 191 fails when the service is
\* unavailable or rejects the filter
SearchRaises(filter_query, unavailable) ==
  unavailable \/ filter_query \notin ValidFilters

\* mutant of query_invoices: a failed search returns every document
query_invoices_all_on_error(idx, filter_query, unavailable) ==
  IF SearchRaises(filter_query, unavailable) THEN ListById(idx)
  ELSE ListById({d \in idx : ODataMatches(filter_query, d)})

\* rag_pipeline.py lines 187-197: the matching documents, [] on any exception
query_invoices(idx, filter_query, unavailable) ==
  IF SearchRaises(filter_query, unavailable) THEN <<>>
  ELSE ListById({d \in idx : ODataMatches(filter_query, d)})

\* ------------------------------------------------ format spec ",.2f"
DigitChar(d) == CHOOSE c \in Digits : DigitVal(c) = d

RECURSIVE Grouped(_)
Grouped(n) ==
  IF n < 1000
  THEN IF n < 10 THEN <<DigitChar(n)>>
       ELSE IF n < 100 THEN <<DigitChar(n \div 10), DigitChar(n % 10)>>
       ELSE <<DigitChar(n \div 100), DigitChar((n \div 10) % 10), DigitChar(n % 10)>>
  ELSE Grouped(n \div 1000) \o
       <<",", DigitChar((n \div 100) % 10), DigitChar((n \div 10) % 10),
         DigitChar(n % 10)>>

\* |x| in hundredths, rounded to nearest (a tie goes to the even hundredth)
Hundredths(x) ==
  LET a == IF x < 0 THEN 0 - x ELSE x
      q == (a * 100) \div Scale
      r == (a * 100) % Scale
  IN  IF 2 * r > Scale \/ (2 * r = Scale /\ q % 2 = 1) THEN q + 1 ELSE q

\* f"{x:,.2f}"
FormatMoney(x) ==
  LET h == Hundredths(x)
  IN  (IF x < 0 THEN <<"-">> ELSE <<>>) \o Grouped(h \div 100) \o
      <<".", DigitChar((h \div 10) % 10), DigitChar(h % 10)>>

\* ------------------------------------------------------- labels and answers
busqueda_simple == <<"busqueda_simple">>
calculo_balance == <<"calculo_balance">>
resumen_general == <<"resumen_general">>
NO_FILTER       == <<"NO_FILTER">>

\* line 145 (accents left out)
NoResultsAnswer ==
  <<"No encontre informacion relevante para tu pregunta. Intenta ser mas especifico.">>

\* line 165 (accents left out)
UnsupportedAnswer ==
  <<"No estoy seguro de como procesar esa pregunta. Por favor, intenta preguntarme sobre gastos, ingresos o un balance general.">>

\* mutant of BalanceAnswer: the balance line adds the two totals
BalanceAnswer_sum(income, expense) ==
  <<"He calculado el balance general basado en todas las facturas:", "\n",
    "- Total de Ingresos: $">> \o FormatMoney(income) \o
  <<"\n", "- Total de Egresos: $">> \o FormatMoney(expense) \o
  <<"\n", "-----------------------------------", "\n", "**Balance General: $">> \o
  FormatMoney(income + expense) \o <<"**">>

\* lines 131-138
BalanceAnswer(income, expense) ==
  <<"He calculado el balance general basado en todas las facturas:", "\n",
    "- Total de Ingresos: $">> \o FormatMoney(income) \o
  <<"\n", "- Total de Egresos: $">> \o FormatMoney(expense) \o
  <<"\n", "-----------------------------------", "\n", "**Balance General: $">> \o
  FormatMoney(income - expense) \o <<"**">>

\* ------------------------------------------------------------------- nodes
\* LangGraph merges the dict a node returns into the state
Merge(state, update) ==
  [k \in DOMAIN state \cup DOMAIN update |->
     IF k \in DOMAIN update THEN update[k] ELSE state[k]]

\* mutant of initial_state: the state dict of the first asker is reused
initial_state_shared(question) == Merge(agent[1].state, [question |-> question])

\* lines 219-224
initial_state(question) ==
  [question |-> question, income_total |-> 0, expense_total |-> 0,
   search_results |-> <<>>]

\* lines 66-69
route_question_node(state, response) == [task_type |-> Strip(response.content)]

\* mutant of generate_filter_node: the reply is stored untrimmed
generate_filter_node_raw(state, response) == [filter_query |-> response.content]

\* lines 88-90
generate_filter_node(state, response) == [filter_query |-> Strip(response.content)]

\* mutant of SkipsSearch: only the empty filter skips the search
SkipsSearch_empty_only(filter_query) == filter_query = <<>>

\* line 97, negated: no filter was generated
SkipsSearch(filter_query) == ~(filter_query # <<>> /\ filter_query # NO_FILTER)

\* lines 96-103
execute_search_node(state, idx, unavailable) ==
  IF SkipsSearch(state.filter_query) THEN [search_results |-> <<>>]
  ELSE [search_results |-> query_invoices(idx, state.filter_query, unavailable)]

\* mutant of search_income_node: the records found are kept in the state
search_income_node_keeps_results(state, idx, unavailable) ==
  LET total == _sum_totals(query_invoices(idx, FilterIngreso, unavailable))
  IN  [raised |-> total.raised,
       update |-> [income_total |-> total.value,
                   search_results |-> query_invoices(idx, FilterIngreso, unavailable)]]

\* lines 108-111
search_income_node(state, idx, unavailable) ==
  LET total == _sum_totals(query_invoices(idx, FilterIngreso, unavailable))
  IN  [raised |-> total.raised, update |-> [income_total |-> total.value]]

\* lines 116-119
search_expense_node(state, idx, unavailable) ==
  LET total == _sum_totals(query_invoices(idx, FilterEgreso, unavailable))
  IN  [raised |-> total.raised, update |-> [expense_total |-> total.value]]

\* mutant of IsBalanceTask: the summary label is not recognised
IsBalanceTask_balance_only(task_type) == task_type = calculo_balance

\* lines 128 and 174
IsBalanceTask(task_type) == task_type \in {calculo_balance, resumen_general}

\* mutant of TemplateAnswer: a simple lookup always asks the service
TemplateAnswer_always_asks(state) ==
  IF IsBalanceTask(state.task_type)
  THEN Some(BalanceAnswer(DictGet(state, "income_total", 0),
                          DictGet(state, "expense_total", 0)))
  ELSE None

\* lines 125-147: the answer composed without the text-generation service, or
\* None when the service is to be asked
TemplateAnswer(state) ==
  IF IsBalanceTask(state.task_type)
  THEN Some(BalanceAnswer(DictGet(state, "income_total", 0),
                          DictGet(state, "expense_total", 0)))
  ELSE IF DictGet(state, "search_results", <<>>) = <<>>
  THEN Some(NoResultsAnswer)
  ELSE None

\* lines 158-161
generate_answer_node(state, response) ==
  IF TemplateAnswer(state) # None
  THEN [final_answer |-> TemplateAnswer(state)[1]]
  ELSE [final_answer |-> response.content]

\* lines 164-167
unsupported_node(state) == [final_answer |-> UnsupportedAnswer]

\* mutant of decide_path: an unknown label is taken for a simple lookup
decide_path_default_simple(state) ==
  LET task_type == DictGet(state, "task_type", <<>>)
  IN  IF IsBalanceTask(task_type) THEN "balance" ELSE "simple"

\* lines 170-176
decide_path(state) ==
  LET task_type == DictGet(state, "task_type", <<>>)
  IN  IF task_type = busqueda_simple THEN "simple"
      ELSE IF IsBalanceTask(task_type) THEN "balance"
      ELSE "unsupported"

\* mutant of RouterEdges: the simple and the balance branch are exchanged
RouterEdges_swapped ==
  [simple |-> "search_income", balance |-> "generate_filter",
   unsupported |-> "unsupported"]

\* lines 193-201: the conditional edges of the router
RouterEdges ==
  [simple |-> "generate_filter", balance |-> "search_income",
   unsupported |-> "unsupported"]

\* mutant of Edge: execute_search goes back to generate_filter
Edge_back_to_filter(node) ==
  CASE node = "generate_filter" -> "execute_search"
    [] node = "execute_search"  -> "generate_filter"
    [] node = "search_income"   -> "search_expense"
    [] node = "search_expense"  -> "generate_answer"
    [] node = "generate_answer" -> "END"
    [] node = "unsupported"     -> "END"

\* mutant of Edge: search_income goes straight to generate_answer
Edge_skip_expense(node) ==
  CASE node = "generate_filter" -> "execute_search"
    [] node = "execute_search"  -> "generate_answer"
    [] node = "search_income"   -> "generate_answer"
    [] node = "search_expense"  -> "generate_answer"
    [] node = "generate_answer" -> "END"
    [] node = "unsupported"     -> "END"

\* lines 204-213: the fixed edges
Edge(node) ==
  CASE node = "generate_filter" -> "execute_search"
    [] node = "execute_search"  -> "generate_answer"
    [] node = "search_income"   -> "search_expense"
    [] node = "search_expense"  -> "generate_answer"
    [] node = "generate_answer" -> "END"
    [] node = "unsupported"     -> "END"

\* ----------------------------------------------------- services of the graph
LlmFailure == [raises |-> TRUE, content |-> <<>>]
LlmContent(content) == [raises |-> FALSE, content |-> content]

\* what the model may answer to the router prompt
RouterResponses ==
  {LlmFailure} \cup
  {LlmContent(c) : c \in {busqueda_simple, <<" ", "calculo_balance", "\n">>,
                          <<"resumen_general", "\n">>, <<>>, <<"\n", " ">>,
                          <<"Calculo_Balance">>, <<"calculo_balance", ".">>,
                          <<"calculo_balance", " ", "resumen_general">>}}

\* what the model may answer to the filter prompt
FilterResponses ==
  {LlmFailure} \cup
  {LlmContent(c) : c \in {NO_FILTER, <<" ", "NO_FILTER", "\n">>, <<>>, <<"no_filter">>,
                          FilterJoni, <<"\n">> \o FilterJoniEgreso,
                          <<"PartnerName = JONI">>}}

\* what the model may answer to the answer prompt
AnswerResponses ==
  {LlmFailure, LlmContent(<<"Joni", " ", "gasto", " ", "$400.00">>), LlmContent(<<>>)}

Questions == {"cual es el balance general?", "cuanto gasto joni?"}

\* documents as process_and_upload_invoice stores them
SampleDocument(id, type, partner, total) ==
  _create_structured_document(
    id, [VendorName |-> "ACME", InvoiceDate |-> "2024-01-31",
         InvoiceTotal |-> total, TotalTax |-> 0],
    1, type, partner, _calculate_file_hash(<<37, 80, 68, 70, id>>))

IncomeJoni   == SampleDocument(1, "ingreso", "JONI", 1000 * Scale)
ExpenseJoni  == SampleDocument(2, "egreso", "JONI", 400 * Scale)
IncomeHernan == SampleDocument(3, "ingreso", "HERNAN", 250 * Scale + Scale \div 2)

SampleIndexes ==
  {{}, {IncomeJoni}, {ExpenseJoni}, {IncomeJoni, ExpenseJoni},
   {IncomeJoni, ExpenseJoni, IncomeHernan}}

\* ------------------------------------------------------------ run of the graph
\* main.py lines 86-93: the response of /chat/ to a run that returned
ChatResponse(final_state) ==
  [status_code |-> 200, success |-> TRUE, question |-> final_state.question,
   answer |-> DictGet(final_state, "final_answer", <<>>)]

\* main.py lines 95-97: the response of /chat/ to a run that raised
ChatError == [status_code |-> 500, detail |-> "Error interno del servidor"]

\* a node has run: it is appended to the trace and its update is merged
Visited(a, node, update) ==
  [a EXCEPT !.trace = Append(@, node), !.state = Merge(@, update)]

\* the run moves to the next node; at END ainvoke returns the final state
Goto(a, next) ==
  IF next = "END"
  THEN [a EXCEPT !.node = "END", !.returned = Some(ChatResponse(a.state))]
  ELSE [a EXCEPT !.node = next]

\* an exception of a node leaves ainvoke and run (lines 225-226 catch nothing)
Propagate(a, node) ==
  [a EXCEPT !.trace = Append(@, node), !.node = "raised",
            !.returned = Some(ChatError)]

\* str(search_results) at line 158: the text shows every record of the list
PyStr(value) == [repr |-> value]

\* the variables a node hands to its prompt: lines 65, 87 and 158
PromptInput(state, node) ==
  IF node = "generate_answer"
  THEN [question |-> state.question,
        search_results |-> PyStr(DictGet(state, "search_results", <<>>))]
  ELSE [question |-> state.question]

LlmCall(a, node, response) ==
  [a EXCEPT !.llmLog = Append(@, [node |-> node, raises |-> response.raises,
                                  content |-> response.content,
                                  input |-> PromptInput(a.state, node)])]

QueryCall(a, node, filter_query, unavailable) ==
  [a EXCEPT !.queryLog =
     Append(@, [node |-> node, filter_query |-> filter_query,
                raises |-> SearchRaises(filter_query, unavailable),
                results |-> query_invoices(index, filter_query, unavailable)])]

UnchangedPipeline ==
  UNCHANGED <<index, runs, ingested, pc, run_no, document_bytes, partner_name,
              file_hash, invoice_type, invoice_data, structured_document, outcome,
              dupLog, analyzerLog, uploadLog, startLog, probe>>

\* lines 218-225: run(question) enters the graph at the router
Ask(w, question) ==
  /\ agent[w].node = "idle"
  /\ agent' = [agent EXCEPT ![w] =
       [@ EXCEPT !.node = "router", !.state = initial_state(question)]]
  /\ UnchangedPipeline

\* lines 48-69 and the conditional edges
Router(w) ==
  \E response \in RouterResponses :
    LET a == LlmCall(agent[w], "router", response)
        b == Visited(a, "router", route_question_node(a.state, response))
    IN  /\ agent[w].node = "router"
        /\ agent' = [agent EXCEPT ![w] =
             IF response.raises THEN Propagate(a, "router")
             ELSE Goto(b, RouterEdges[decide_path(b.state)])]
        /\ UnchangedPipeline

\* lines 72-90
GenerateFilter(w) ==
  \E response \in FilterResponses :
    LET a == LlmCall(agent[w], "generate_filter", response)
        b == Visited(a, "generate_filter", generate_filter_node(a.state, response))
    IN  /\ agent[w].node = "generate_filter"
        /\ agent' = [agent EXCEPT ![w] =
             IF response.raises THEN Propagate(a, "generate_filter")
             ELSE Goto(b, Edge("generate_filter"))]
        /\ UnchangedPipeline

\* lines 93-103
ExecuteSearch(w) ==
  \E unavailable \in BOOLEAN :
    LET old == agent[w]
        a == IF SkipsSearch(old.state.filter_query) THEN old
             ELSE QueryCall(old, "execute_search", old.state.filter_query, unavailable)
        b == Visited(a, "execute_search",
                     execute_search_node(old.state, index, unavailable))
    IN  /\ agent[w].node = "execute_search"
        /\ agent' = [agent EXCEPT ![w] = Goto(b, Edge("execute_search"))]
        /\ UnchangedPipeline

\* lines 106-111
SearchIncome(w) ==
  \E unavailable \in BOOLEAN :
    LET a   == QueryCall(agent[w], "search_income", FilterIngreso, unavailable)
        res == search_income_node(a.state, index, unavailable)
    IN  /\ agent[w].node = "search_income"
        /\ agent' = [agent EXCEPT ![w] =
             IF res.raised # "no" THEN Propagate(a, "search_income")
             ELSE Goto(Visited(a, "search_income", res.update), Edge("search_income"))]
        /\ UnchangedPipeline

\* lines 114-119
SearchExpense(w) ==
  \E unavailable \in BOOLEAN :
    LET a   == QueryCall(agent[w], "search_expense", FilterEgreso, unavailable)
        res == search_expense_node(a.state, index, unavailable)
    IN  /\ agent[w].node = "search_expense"
        /\ agent' = [agent EXCEPT ![w] =
             IF res.raised # "no" THEN Propagate(a, "search_expense")
             ELSE Goto(Visited(a, "search_expense", res.update), Edge("search_expense"))]
        /\ UnchangedPipeline

\* lines 122-161
GenerateAnswer(w) ==
  \E response \in AnswerResponses :
    LET old == agent[w]
        a   == LlmCall(old, "generate_answer", response)
    IN  /\ agent[w].node = "generate_answer"
        /\ agent' = [agent EXCEPT ![w] =
             IF TemplateAnswer(old.state) # None
             THEN Goto(Visited(old, "generate_answer",
                               generate_answer_node(old.state, response)),
                       Edge("generate_answer"))
             ELSE IF response.raises THEN Propagate(a, "generate_answer")
             ELSE Goto(Visited(a, "generate_answer",
                               generate_answer_node(old.state, response)),
                       Edge("generate_answer"))]
        /\ UnchangedPipeline

\* lines 164-167
Unsupported(w) ==
  /\ agent[w].node = "unsupported"
  /\ agent' = [agent EXCEPT ![w] =
       Goto(Visited(@, "unsupported", unsupported_node(@.state)), Edge("unsupported"))]
  /\ UnchangedPipeline

NodeStep(w) ==
  \/ Router(w) \/ GenerateFilter(w) \/ ExecuteSearch(w)
  \/ SearchIncome(w) \/ SearchExpense(w) \/ GenerateAnswer(w) \/ Unsupported(w)

\* one question at a time over a given index
InitGraph == InitLocals /\ index \in SampleIndexes /\ probe = NoProbe

NextGraph == (\E question \in Questions : Ask(1, question)) \/ NodeStep(1)

SpecGraph == InitGraph /\ [][NextGraph]_vars

\* every node awaits its calls on the event loop: when the calls return the
\* run is resumed, so a node that can run does run
SpecGraphFair == InitGraph /\ [][NextGraph]_vars /\ WF_vars(NodeStep(1))

\* ------------------------------------------------- _sum_totals on its own
MaxResults == 2

TextInvalid == [kind |-> "invalid", members |-> <<>>]
TextNull    == [kind |-> "null", members |-> <<>>]
NotAString  == [kind |-> "None", members |-> <<>>]

\* records a query may return: two stored by the pipeline, and records whose
\* content is no JSON, is None, is missing, has no InvoiceTotal, is JSON null
SumRecords ==
  {IncomeJoni, ExpenseJoni,
   [id |-> 4, content |-> TextInvalid],
   [id |-> 5, content |-> NotAString],
   [id |-> 6],
   [id |-> 7, content |-> [kind |-> "object", members |-> <<<<"VendorName", "ACME">>>>]],
   [id |-> 8, content |-> TextNull]}

InitSum ==
  /\ InitPipeline
  /\ probe \in [kind : {"sum"},
                search_results : UNION {[1..n -> SumRecords] : n \in 0..MaxResults},
                returned : {None}]

CallSumTotals ==
  /\ probe.kind = "sum"
  /\ probe.returned = None
  /\ probe' = [probe EXCEPT !.returned = Some(_sum_totals(probe.search_results))]
  /\ UNCHANGED <<index, runs, ingested, pc, run_no, document_bytes, partner_name,
                 file_hash, invoice_type, invoice_data, structured_document, outcome,
                 dupLog, analyzerLog, uploadLog, startLog, agent>>

SpecSum == InitSum /\ [][CallSumTotals]_vars

\* two questions in flight at once over the same index: /chat/ is an async
\* endpoint and every node awaits
Askers == {1, 2}

NextGraphConc ==
  \E w \in Askers : (\E question \in Questions : Ask(w, question)) \/ NodeStep(w)

SpecGraphConc == InitGraph /\ [][NextGraphConc]_vars

\* ----------------------------------- a question put after some ingestions
\* main.py lines 43-97: the server ingests invoices one after the other and,
\* an ingestion having returned success, answers a question over the index
\* they have left
NextIngestThenAsk ==
  \/ agent[1].node = "idle" /\ StartSequential
  \/ agent[1].node = "idle" /\ Step(1)
  \/ /\ pc[1] = "done" /\ outcome[1] # None /\ outcome[1][1].success
     /\ \E question \in Questions : Ask(1, question)
  \/ NodeStep(1)

SpecIngestThenAsk == Init /\ [][NextIngestThenAsk]_vars

\* ------------------------------------------------- clean_currency on its own
\* the characters the strings are made of: the currency sign, two digits, the
\* two separators, a blank, a sign and a letter
CurrencyAlphabet == {"$", "1", "5", ".", ",", " ", "-", "x"}

\* every string has at most MaxDecimals digits after its separator
MaxLen == MaxDecimals + 1

CurrencyStrings ==
  UNION {[1..n -> CurrencyAlphabet] : n \in 0..MaxLen} \cup {TotalGood, TaxGood, TotalBad}

InitCurrency ==
  /\ InitPipeline
  /\ probe \in [kind : {"currency"}, value : CurrencyStrings, returned : {None}]

CallCleanCurrency ==
  /\ probe.kind = "currency"
  /\ probe.returned = None
  /\ probe' = [probe EXCEPT !.returned = Some(clean_currency(Some(probe.value)))]
  /\ UNCHANGED <<index, runs, ingested, pc, run_no, document_bytes, partner_name,
                 file_hash, invoice_type, invoice_data, structured_document, outcome,
                 dupLog, analyzerLog, uploadLog, startLog, agent>>

SpecCurrency == InitCurrency /\ [][CallCleanCurrency]_vars

\* =================================================================== claims
Done(w)     == pc[w] = "done" /\ outcome[w] # None
Result(w)   == outcome[w][1]
Checked(w)  == dupLog[w] # <<>>
NothingWritten(w) == uploadLog[w] = <<>> /\ index = startLog[w].index
Accepted(w) == \E i \in 1..Len(analyzerLog[w]) : analyzerLog[w][i].accepted

\* C1: a run whose fingerprint is in the index when the duplicate check
\* queries it has returned the duplicate outcome (success false, error
\* "duplicate"), has made no analyzer call and has written nothing.
C1_DuplicateAborts ==
  \A w \in Workers :
    (Checked(w) /\ dupLog[w][1].present) =>
      /\ Done(w)
      /\ Result(w).success = FALSE
      /\ Result(w).error = "duplicate"
      /\ analyzerLog[w] = <<>>
      /\ NothingWritten(w)

C1_Witness ==
  \E w \in Workers :
    Checked(w) /\ dupLog[w][1].present /\ ~dupLog[w][1].raised /\ Done(w)

\* C2: with ingestions run one after the other, the index holds at most one
\* record per fingerprint; and a run on bytes whose ingestion had already
\* returned success returns the duplicate outcome, the index then holding
\* exactly one record with that fingerprint.
C2_Idempotent ==
  /\ \A f \in Files : GetCount(index, _calculate_file_hash(f)) <= 1
  /\ \A w \in Workers :
       (Done(w) /\ file_hash[w] # None /\ document_bytes[w] \in startLog[w].ingested) =>
         /\ Result(w) = DuplicateOutcome
         /\ GetCount(index, file_hash[w][1]) = 1

C2_Witness ==
  \E w \in Workers :
    /\ Done(w) /\ file_hash[w] # None
    /\ document_bytes[w] \in startLog[w].ingested
    /\ ~dupLog[w][1].raised
    /\ Cardinality(index) = 1

\* C3: under every interleaving of concurrent ingestions the index never
\* holds two records with the same file_hash.
C3_UniqueUnderConcurrency ==
  \A d, e \in index : d.file_hash = e.file_hash => d = e

\* C4: when the query of the duplicate check raises, _is_duplicate answers
\* true: the run has returned the duplicate outcome, without an analyzer call
\* and without a write.
C4_FailClosed ==
  \A w \in Workers :
    (Checked(w) /\ dupLog[w][1].raised) =>
      /\ dupLog[w][1].answer
      /\ Done(w)
      /\ Result(w) = DuplicateOutcome
      /\ analyzerLog[w] = <<>>
      /\ NothingWritten(w)

C4_Witness ==
  \E w \in Workers :
    Checked(w) /\ dupLog[w][1].raised /\ ~dupLog[w][1].present /\ Done(w)

\* C5: _analyze_with_model returns the analyzer's result exactly when the
\* analyzer returned at least one document, the first document's doc_type is
\* the model id and its confidence is above 0.95 (0.95 itself is rejected);
\* every other answer of the analyzer makes it return None.
C5_AcceptedIff ==
  (probe.kind = "analyze" /\ probe.returned # None) =>
    LET ret  == probe.returned[1]
        resp == probe.response
        good == /\ resp.raises = "no"
                /\ Len(resp.documents) >= 1
                /\ resp.documents[1].doc_type = probe.model_id
                /\ resp.documents[1].confidence > 95
    IN  /\ (ret.value # None) <=> good
        /\ good => ret.value = Some(resp)
        /\ resp.raises = "no" => ~ret.raised

C5_Witness ==
  /\ probe.kind = "analyze" /\ probe.returned # None
  /\ probe.response.documents # <<>>
  /\ probe.response.documents[1].doc_type = probe.model_id
  /\ probe.response.documents[1].confidence = 95
  /\ probe.returned[1].value = None

\* C6: the analyzer is called with the emitidas profile first and with the
\* recibidas profile only after the emitidas result was not accepted; after
\* an accepted emitidas result the run makes no further analyzer call.
C6_ProfileOrder ==
  \A w \in Workers :
    LET log == analyzerLog[w]
    IN  /\ Len(log) <= 2
        /\ Len(log) >= 1 => log[1].model_id = MODELO_EMITIDAS
        /\ Len(log) = 2 => log[2].model_id = MODELO_RECIBIDAS /\ ~log[1].accepted
        /\ (Len(log) >= 1 /\ log[1].accepted) => Len(log) = 1
        /\ pc[w] = "analyze_recibidas" => Len(log) = 1
        /\ pc[w] = "upload" => Len(log) >= 1

C6_Witness ==
  \E w \in Workers :
    /\ Done(w) /\ uploadLog[w] # <<>>
    /\ Len(analyzerLog[w]) = 1 /\ analyzerLog[w][1].accepted

\* C7: a run in which neither profile gave an accepted result ends with
\* success false and no record written; when both profiles answered without
\* acceptance the outcome is the classification failure.
C7_ClassificationFailure ==
  \A w \in Workers :
    /\ (Done(w) /\ Checked(w) /\ ~dupLog[w][1].answer /\ ~Accepted(w)) =>
         Result(w).success = FALSE /\ NothingWritten(w)
    /\ (Len(analyzerLog[w]) = 2 /\ ~Accepted(w) /\ analyzerLog[w][2].raises # "Exception") =>
         /\ Done(w)
         /\ Result(w) = [success |-> FALSE, error |-> ClassificationError]
         /\ NothingWritten(w)

C7_Witness ==
  \E w \in Workers :
    /\ Len(analyzerLog[w]) = 2 /\ ~Accepted(w)
    /\ analyzerLog[w][1].raises = "no" /\ analyzerLog[w][2].raises = "no"
    /\ Done(w)

\* C8: an HttpResponseError of the analyzer counts as "not accepted": after
\* one on the first profile the second profile is tried, a second profile
\* accepted after it leads to the upload, and a run returns the
\* classification failure only after both profiles were tried.
C8_ProfileFailureSwallowed ==
  \A w \in Workers :
    LET log == analyzerLog[w]
    IN  /\ (Len(log) >= 1 /\ log[1].raises = "HttpResponseError") =>
             /\ ~log[1].accepted
             /\ pc[w] = "analyze_recibidas" \/ Len(log) = 2
        /\ (Len(log) = 2 /\ log[1].raises = "HttpResponseError" /\ log[2].accepted) =>
             /\ pc[w] \in {"upload", "done"}
             /\ pc[w] = "done" => uploadLog[w] # <<>>
        /\ (Done(w) /\ "error" \in DOMAIN Result(w)
              /\ Result(w).error = ClassificationError) =>
             Len(log) = 2 /\ ~Accepted(w)

C8_Witness ==
  \E w \in Workers :
    /\ Len(analyzerLog[w]) = 2
    /\ analyzerLog[w][1].raises = "HttpResponseError"
    /\ analyzerLog[w][2].accepted
    /\ Done(w) /\ Result(w).success

\* C9: every failed ingestion returns an error discriminator from
\* {duplicate, classification_failed, write_failed, unexpected} together
\* with a message.
Discriminators == {"duplicate", "classification_failed", "write_failed", "unexpected"}

C9_ClosedDiscriminator ==
  \A w \in Workers :
    (Done(w) /\ ~Result(w).success) =>
      /\ "error" \in DOMAIN Result(w)
      /\ Result(w).error \in Discriminators
      /\ "message" \in DOMAIN Result(w)

\* C10: a run attempts the index write at most once, and only after the
\* duplicate check answered false, a profile was accepted and the record was
\* built; when the outcome has success false the index is what it was when
\* the run started.
C10_NoPartialWrite ==
  \A w \in Workers :
    /\ Len(uploadLog[w]) <= 1
    /\ uploadLog[w] # <<>> =>
         /\ Checked(w) /\ ~dupLog[w][1].answer
         /\ Accepted(w)
         /\ structured_document[w] # None
    /\ (Done(w) /\ ~Result(w).success) => index = startLog[w].index

C10_Witness ==
  \E w \in Workers :
    /\ Done(w) /\ ~Result(w).success
    /\ uploadLog[w] # <<>> /\ ~uploadLog[w][1].raises
    /\ startLog[w].index # {}

\* C11: within one ingestion the stages follow the order hash, duplicate
\* check, first profile, second profile, record built, index write, return:
\* every step moves forward along an edge of that order, each stage's call
\* is made at most once and only in its stage, and nothing of the run changes
\* after it has returned.
Rank(p) ==
  CASE p = "idle" -> 0
    [] p = "check_duplicate" -> 1
    [] p = "analyze_emitidas" -> 2
    [] p = "analyze_recibidas" -> 3
    [] p = "upload" -> 4
    [] p = "done" -> 5
    [] OTHER -> 6

StageEdges ==
  {<<"check_duplicate", "analyze_emitidas">>, <<"check_duplicate", "done">>,
   <<"analyze_emitidas", "analyze_recibidas">>, <<"analyze_emitidas", "upload">>,
   <<"analyze_emitidas", "done">>, <<"analyze_recibidas", "upload">>,
   <<"analyze_recibidas", "done">>, <<"upload", "done">>}

C11_StepLinear ==
  \A w \in Workers :
    IF run_no'[w] # run_no[w]
    THEN /\ pc[w] \in {"idle", "done"}
         /\ pc'[w] \in {"check_duplicate", "done"}
         /\ pc'[w] = "check_duplicate" <=> file_hash'[w] # None
         /\ dupLog'[w] = <<>> /\ analyzerLog'[w] = <<>> /\ uploadLog'[w] = <<>>
         /\ structured_document'[w] = None
    ELSE /\ pc'[w] # pc[w] =>
              Rank(pc'[w]) > Rank(pc[w]) /\ <<pc[w], pc'[w]>> \in StageEdges
         /\ file_hash'[w] = file_hash[w]
         /\ dupLog'[w] # dupLog[w] =>
              pc[w] = "check_duplicate" /\ dupLog[w] = <<>> /\ Len(dupLog'[w]) = 1
         /\ analyzerLog'[w] # analyzerLog[w] =>
              /\ pc[w] \in {"analyze_emitidas", "analyze_recibidas"}
              /\ Len(analyzerLog'[w]) = Len(analyzerLog[w]) + 1
              /\ Len(analyzerLog'[w]) = IF pc[w] = "analyze_emitidas" THEN 1 ELSE 2
         /\ structured_document'[w] # structured_document[w] =>
              /\ pc[w] \in {"analyze_emitidas", "analyze_recibidas"}
              /\ pc'[w] = "upload"
              /\ structured_document[w] = None
         /\ uploadLog'[w] # uploadLog[w] =>
              /\ pc[w] = "upload" /\ pc'[w] = "done"
              /\ uploadLog[w] = <<>> /\ Len(uploadLog'[w]) = 1
         /\ outcome'[w] # None => pc'[w] = "done"
         /\ pc[w] = "done" =>
              /\ pc'[w] = "done" /\ outcome'[w] = outcome[w]
              /\ dupLog'[w] = dupLog[w] /\ analyzerLog'[w] = analyzerLog[w]
              /\ uploadLog'[w] = uploadLog[w] /\ index' = index

C11_Linear == [][C11_StepLinear]_vars

C11_Witness ==
  \E w \in Workers :
    /\ Done(w) /\ Checked(w)
    /\ Len(analyzerLog[w]) = 2 /\ uploadLog[w] # <<>>
    /\ structured_document[w] # None

\* C12: process_and_upload_invoice never leaves by an exception.  (Original
\* statement: whatever fails inside, field extraction included, the result
\* has success false.)
OpenFailed(w) == run_no[w] > 0 /\ file_hash[w] = None
AnalyzerRaised(w) ==
  \E i \in 1..Len(analyzerLog[w]) : analyzerLog[w][i].raises = "Exception"
UploadRaised(w) == uploadLog[w] # <<>> /\ uploadLog[w][1].raises
ExtractionFailed(w) ==
  \E i \in 1..Len(analyzerLog[w]) : analyzerLog[w][i].extraction_failed
Propagated(w) == pc[w] = "raised"

C12_FailureMeansFalse ==
  \A w \in Workers :
    /\ ~Propagated(w)
    /\ (\/ OpenFailed(w) \/ (Checked(w) /\ dupLog[w][1].raised)
        \/ AnalyzerRaised(w) \/ UploadRaised(w) \/ ExtractionFailed(w)) =>
         (pc[w] = "done" => ~Result(w).success)

\* C12 as amended: the call never leaves by an exception; a failure to read
\* the file, of the duplicate query, an unexpected analyzer error or an
\* exception of the index write gives a result with success false; a failed
\* field extraction is absorbed with the default fields, the run goes on to
\* the index write and its success is that of the write.
C12_NeverRaises ==
  \A w \in Workers :
    /\ ~Propagated(w)
    /\ (\/ OpenFailed(w) \/ (Checked(w) /\ dupLog[w][1].raised)
        \/ AnalyzerRaised(w) \/ UploadRaised(w)) =>
         Done(w) /\ ~Result(w).success
    /\ ExtractionFailed(w) =>
         /\ pc[w] \in {"upload", "done"}
         /\ invoice_data[w] = [VendorName |-> "N/A", InvoiceDate |-> "N/A",
                               InvoiceTotal |-> 0, TotalTax |-> 0]
         /\ pc[w] = "done" =>
              /\ uploadLog[w] # <<>> /\ outcome[w] # None
              /\ Result(w).success = Stored(uploadLog[w][1])

C12_Witness ==
  \E w \in Workers : Done(w) /\ UploadRaised(w) /\ ~Result(w).success

\* ------------------------------------------------ claims on the question graph
Ended(w)      == agent[w].node = "END"
RunRaised(w)  == agent[w].node = "raised"
Routed(w)     == "task_type" \in DOMAIN agent[w].state
LlmFailed(w)  == \E i \in 1..Len(agent[w].llmLog) : agent[w].llmLog[i].raises
QueryFailed(w) == \E i \in 1..Len(agent[w].queryLog) : agent[w].queryLog[i].raises
LlmNodes(w)   == [i \in 1..Len(agent[w].llmLog) |-> agent[w].llmLog[i].node]
QueryFilters(w) ==
  [i \in 1..Len(agent[w].queryLog) |-> agent[w].queryLog[i].filter_query]
Contains(s, sub) ==
  \E i \in 1..(Len(s) - Len(sub) + 1) : SubSeq(s, i, i + Len(sub) - 1) = sub

\* C13: AgentGraph.run never raises: a run in which a call of the
\* text-generation service failed has returned a result object with success
\* false.
C13_RunNeverRaises ==
  \A w \in Workers :
    /\ ~RunRaised(w)
    /\ LlmFailed(w) =>
         /\ agent[w].returned # None
         /\ "success" \in DOMAIN agent[w].returned[1]
         /\ agent[w].returned[1].success = FALSE

\* C14: a question during which an index query failed is aborted with a
\* failure: no later node runs and no answer is returned as a success.
C14_IndexFailureSurfaced ==
  \A w \in Workers :
    QueryFailed(w) =>
      /\ agent[w].node \notin {"search_expense", "generate_answer"}
      /\ ~(Ended(w) /\ agent[w].returned[1].success)

\* C15: a router response that, stripped, is none of the three labels sends
\* the run to the unsupported node: no index query is made, the router call
\* is the only call of the text-generation service, and the run ends with the
\* fixed guidance message after the nodes router and unsupported.
C15_UnknownLabelUnsupported ==
  \A w \in Workers :
    (/\ agent[w].llmLog # <<>>
     /\ ~agent[w].llmLog[1].raises
     /\ Strip(agent[w].llmLog[1].content) \notin
          {busqueda_simple, calculo_balance, resumen_general}) =>
      /\ agent[w].node \in {"unsupported", "END"}
      /\ agent[w].queryLog = <<>>
      /\ LlmNodes(w) = <<"router">>
      /\ Ended(w) =>
           /\ agent[w].trace = <<"router", "unsupported">>
           /\ agent[w].state.final_answer = UnsupportedAnswer
           /\ agent[w].returned[1].answer = UnsupportedAnswer

C15_Witness ==
  \E w \in Workers :
    /\ Ended(w)
    /\ agent[w].llmLog[1].content = <<"calculo_balance", ".">>

\* C16: over the same index, a finished run routed by 'calculo_balance' and
\* a finished run routed by 'resumen_general' have visited the same nodes in
\* the same order and issued the same index queries and text-generation
\* calls; when the same queries were answered they got the same results and
\* hold the same final answer.
Availability(w) ==
  [i \in 1..Len(agent[w].queryLog) |-> agent[w].queryLog[i].raises]

C16_BalanceSummaryAlike ==
  \A v, w \in Workers :
    (/\ agent[v].node \in {"END", "raised"} /\ agent[w].node \in {"END", "raised"}
     /\ Routed(v) /\ agent[v].state.task_type = calculo_balance
     /\ Routed(w) /\ agent[w].state.task_type = resumen_general) =>
      /\ agent[v].trace = agent[w].trace
      /\ QueryFilters(v) = QueryFilters(w)
      /\ LlmNodes(v) = LlmNodes(w)
      /\ Ended(v) /\ Ended(w)
      /\ Availability(v) = Availability(w) =>
           /\ agent[v].queryLog = agent[w].queryLog
           /\ agent[v].state.final_answer = agent[w].state.final_answer
           /\ agent[v].returned[1].answer = agent[w].returned[1].answer

C16_Witness ==
  \E v, w \in Workers :
    /\ Ended(v) /\ agent[v].state.task_type = calculo_balance
    /\ Ended(w) /\ agent[w].state.task_type = resumen_general
    /\ Availability(v) = <<FALSE, FALSE>> /\ Availability(w) = <<FALSE, FALSE>>
    /\ index = {IncomeJoni, ExpenseJoni, IncomeHernan}

\* C17: when the filter synthesizer answers 'NO_FILTER' (whitespace around it
\* stripped), the run makes no index query, execute_search stores an empty
\* result list, the run does not raise and ends with the fixed 'no relevant
\* information' answer, and the text-generation service has been called by
\* the router and the filter synthesizer only.
FilterReply(w) == agent[w].llmLog[2]

C17_NoFilterSkipsSearch ==
  \A w \in Workers :
    (/\ Len(agent[w].llmLog) >= 2
     /\ FilterReply(w).node = "generate_filter"
     /\ ~FilterReply(w).raises
     /\ Strip(FilterReply(w).content) = NO_FILTER) =>
      /\ agent[w].queryLog = <<>>
      /\ agent[w].node \in {"execute_search", "generate_answer", "END"}
      /\ LlmNodes(w) = <<"router", "generate_filter">>
      /\ agent[w].node # "execute_search" => agent[w].state.search_results = <<>>
      /\ Ended(w) =>
           /\ agent[w].trace =
                <<"router", "generate_filter", "execute_search", "generate_answer">>
           /\ agent[w].state.final_answer = NoResultsAnswer
           /\ agent[w].returned[1].success
           /\ agent[w].returned[1].answer = NoResultsAnswer

C17_Witness ==
  \E w \in Workers :
    /\ Ended(w)
    /\ Len(agent[w].llmLog) = 2
    /\ FilterReply(w).content = <<" ", "NO_FILTER", "\n">>
    /\ index # {}

\* C18: on the balance path the income query is made and its total stored
\* before the expense query, and generate_answer starts only when both
\* queries are done and both totals are in the state.
OnBalancePath(w) == Routed(w) /\ IsBalanceTask(agent[w].state.task_type)

C18_IncomeThenExpense ==
  \A w \in Workers :
    OnBalancePath(w) =>
      /\ agent[w].node = "search_income" =>
           agent[w].queryLog = <<>> /\ agent[w].trace = <<"router">>
      /\ agent[w].node = "search_expense" =>
           /\ agent[w].trace = <<"router", "search_income">>
           /\ QueryFilters(w) = <<FilterIngreso>>
           /\ agent[w].state.income_total =
                _sum_totals(agent[w].queryLog[1].results).value
      /\ agent[w].node \in {"generate_answer", "END"} =>
           /\ QueryFilters(w) = <<FilterIngreso, FilterEgreso>>
           /\ Len(agent[w].trace) >= 3
           /\ SubSeq(agent[w].trace, 1, 3) =
                <<"router", "search_income", "search_expense">>
           /\ agent[w].state.income_total =
                _sum_totals(agent[w].queryLog[1].results).value
           /\ agent[w].state.expense_total =
                _sum_totals(agent[w].queryLog[2].results).value
      /\ agent[w].node \in {"search_income", "search_expense", "generate_answer", "END"}

C18_Witness ==
  \E w \in Workers :
    /\ OnBalancePath(w)
    /\ agent[w].node = "generate_answer"
    /\ agent[w].state.income_total > 0 /\ agent[w].state.expense_total > 0

\* C19: the answer of a balance or summary run holds the income total, the
\* expense total and income minus expense of the state, each in the format
\* ",.2f" (1000 and 400 give 1,000.00, 400.00 and 600.00), and only the
\* router has called the text-generation service.
C19_BalanceAnswer ==
  \A w \in Workers :
    (OnBalancePath(w) /\ Ended(w)) =>
      LET income  == agent[w].state.income_total
          expense == agent[w].state.expense_total
          answer  == agent[w].state.final_answer
      IN  /\ Contains(answer, <<"- Total de Ingresos: $">> \o FormatMoney(income))
          /\ Contains(answer, <<"- Total de Egresos: $">> \o FormatMoney(expense))
          /\ Contains(answer, <<"**Balance General: $">> \o
                              FormatMoney(income - expense) \o <<"**">>)
          /\ (income = 1000 * Scale /\ expense = 400 * Scale) =>
               /\ Contains(answer, <<"- Total de Ingresos: $",
                                     "1", ",", "0", "0", "0", ".", "0", "0", "\n">>)
               /\ Contains(answer, <<"- Total de Egresos: $",
                                     "4", "0", "0", ".", "0", "0", "\n">>)
               /\ Contains(answer, <<"**Balance General: $",
                                     "6", "0", "0", ".", "0", "0", "**">>)
          /\ agent[w].returned[1].answer = answer
          /\ LlmNodes(w) = <<"router">>

C19_Witness ==
  \E w \in Workers :
    /\ OnBalancePath(w) /\ Ended(w)
    /\ agent[w].state.income_total = 1000 * Scale
    /\ agent[w].state.expense_total = 400 * Scale

\* C20: for every list of records _sum_totals returns, without raising, the
\* sum of InvoiceTotal over the records whose content parses as JSON, a
\* record whose content does not parse counting 0.
ContentOf(result) == DictGet(result, "content", EmptyObjectText)
Parses(result)    == ContentOf(result).kind \notin {"invalid", "None"}
TotalIn(result)   ==
  LET m == ContentOf(result).members
      s == {i \in 1..Len(m) : m[i][1] = "InvoiceTotal"}
  IN  IF Parses(result) /\ s # {} THEN m[CHOOSE i \in s : TRUE][2] ELSE 0

RECURSIVE SumOfParsed(_)
SumOfParsed(results) ==
  IF results = <<>> THEN 0 ELSE TotalIn(Head(results)) + SumOfParsed(Tail(results))

C20_SumToleratesBadRecords ==
  (probe.kind = "sum" /\ probe.returned # None) =>
    /\ probe.returned[1].raised = "no"
    /\ probe.returned[1].value = SumOfParsed(probe.search_results)

\* C21: in every reachable state every record of the index carries one
\* classification tag, 'ingreso' or 'egreso', and the fingerprint of a file
\* that was read.
C21_TaggedAndFingerprinted ==
  \A d \in index :
    /\ d.InvoiceType \in {"ingreso", "egreso"}
    /\ \E f \in Files : d.file_hash = _calculate_file_hash(f)
    /\ \A e \in index : e.id = d.id => e = d

C21_Witness ==
  /\ \E d \in index : d.InvoiceType = "ingreso"
  /\ \E d \in index : d.InvoiceType = "egreso"

\* C25: no step of an ingestion removes or changes a record of the index, a
\* step adds at most one record, and a run that has returned success has
\* added exactly one record that was not there when it started.
C25_StepAppendOnly ==
  /\ index \subseteq index'
  /\ Cardinality(index' \ index) <= 1
  /\ \A w \in Workers :
       (outcome[w] = None /\ outcome'[w] # None) =>
         IF outcome'[w][1].success
         THEN Cardinality(index' \ index) = 1
         ELSE uploadLog'[w] = <<>> => index' = index
  /\ \A w \in Workers :
       Done(w) =>
         /\ startLog[w].index \subseteq index
         /\ Result(w).success => Cardinality(index \ startLog[w].index) = 1

C25_AppendOnly == [][C25_StepAppendOnly]_vars

C25_Witness ==
  \E w \in Workers :
    /\ Done(w) /\ Result(w).success
    /\ startLog[w].index # {}
    /\ Cardinality(index) = Cardinality(startLog[w].index) + 1

\* C26: a run whose analysis was accepted has built its record and gone on
\* to the index write, whatever the fields: an absent or empty VendorName or
\* InvoiceDate is 'N/A' in the record, an absent or unparsable InvoiceTotal
\* or TotalTax is 0.0, and the outcome of the run is that of the write.
AbsentText   == {None, Some("")}
AbsentAmount == {None, Some(TotalBad)}

C26_NormalizationTolerant ==
  \A w \in Workers :
    \A i \in 1..Len(analyzerLog[w]) :
      analyzerLog[w][i].accepted =>
        LET f    == analyzerLog[w][i].fields
            data == invoice_data[w]
        IN  /\ pc[w] \in {"upload", "done"}
            /\ structured_document[w] # None
            /\ DOMAIN data = {"VendorName", "InvoiceDate", "InvoiceTotal", "TotalTax"}
            /\ f # FieldsNone =>
                 /\ f.VendorName \in AbsentText => data.VendorName = "N/A"
                 /\ f.InvoiceDate \in AbsentText => data.InvoiceDate = "N/A"
                 /\ f.InvoiceTotal \in AbsentAmount => data.InvoiceTotal = 0
                 /\ f.TotalTax \in AbsentAmount => data.TotalTax = 0
            /\ pc[w] = "done" =>
                 /\ uploadLog[w] # <<>>
                 /\ Result(w).success = Stored(uploadLog[w][1])

C26_Witness ==
  \E w \in Workers :
    /\ Done(w) /\ Result(w).success
    /\ \E i \in 1..Len(analyzerLog[w]) :
         analyzerLog[w][i].accepted /\ analyzerLog[w][i].fields = FieldsPartial

\* C27: a string in the locale pattern (optional '$', '.' between groups of
\* three digits or no '.', optional ',' and decimals; blanks around it
\* allowed) parses to its value, and every other string parses to 0.0.
PatternBody(s) ==
  LET t == Strip(s)
  IN  IF t # <<>> /\ t[1] = "$" THEN Strip(Tail(t)) ELSE t

IntegerPart(s) ==
  LET b == PatternBody(s)
      c == {i \in 1..Len(b) : b[i] = ","}
  IN  IF c = {} THEN b ELSE SubSeq(b, 1, (CHOOSE i \in c : \A j \in c : i <= j) - 1)

DecimalPart(s) ==
  LET b == PatternBody(s)
      c == {i \in 1..Len(b) : b[i] = ","}
  IN  IF c = {} THEN <<>>
      ELSE SubSeq(b, (CHOOSE i \in c : \A j \in c : i <= j) + 1, Len(b))

InLocalePattern(s) ==
  LET b  == PatternBody(s)
      ip == IntegerPart(s)
      dp == DecimalPart(s)
  IN  /\ ip # <<>> /\ ip[1] \in Digits
      /\ \/ \A i \in 1..Len(ip) : ip[i] \in Digits
         \/ \A i \in 1..Len(ip) :
              IF (Len(ip) - i + 1) % 4 = 0 THEN ip[i] = "." ELSE ip[i] \in Digits
      /\ \A i \in 1..Len(dp) : dp[i] \in Digits
      /\ Len(b) > Len(ip) => dp # <<>>

PatternValue(s) ==
  IntOf(Remove(IntegerPart(s), ".")) * Scale
    + IntOf(DecimalPart(s)) * Pow10(MaxDecimals - Len(DecimalPart(s)))

C27_CurrencyParsing ==
  (probe.kind = "currency" /\ probe.returned # None) =>
    probe.returned[1] =
      IF InLocalePattern(probe.value) THEN PatternValue(probe.value) ELSE 0

\* C22: a simple lookup that has passed generate_answer has called the
\* text-generation service there not at all when its result list was empty,
\* and then ends with the fixed 'no relevant information' answer, and exactly
\* once when it was not, with the question and the text of all retrieved
\* records, and then ends with the content of that response.
OnSimplePath(w) == Routed(w) /\ agent[w].state.task_type = busqueda_simple
AnswerCalls(w)  == {i \in 1..Len(agent[w].llmLog) : agent[w].llmLog[i].node = "generate_answer"}
Composed(w)     ==
  agent[w].trace # <<>> /\ agent[w].trace[Len(agent[w].trace)] = "generate_answer"

C22_AnswerBranches ==
  \A w \in Workers :
    (OnSimplePath(w) /\ Composed(w)) =>
      LET st == agent[w].state
      IN  IF st.search_results = <<>>
          THEN /\ AnswerCalls(w) = {}
               /\ Ended(w)
               /\ st.final_answer = NoResultsAnswer
               /\ agent[w].returned[1].answer = NoResultsAnswer
          ELSE /\ AnswerCalls(w) = {3}
               /\ agent[w].llmLog[3].input.question = st.question
               /\ agent[w].llmLog[3].input.search_results = PyStr(st.search_results)
               /\ st.search_results = agent[w].queryLog[1].results
               /\ Len(agent[w].queryLog) = 1
               /\ Ended(w) =>
                    /\ st.final_answer = agent[w].llmLog[3].content
                    /\ agent[w].returned[1].answer = agent[w].llmLog[3].content

C22_Witness ==
  \E w \in Workers :
    /\ OnSimplePath(w) /\ Ended(w)
    /\ Len(agent[w].state.search_results) = 2
    /\ agent[w].state.final_answer = <<"Joni", " ", "gasto", " ", "$400.00">>

\* C23: when the filter synthesizer's reply, stripped, is neither 'NO_FILTER'
\* nor a filter the index accepts, the run does not raise: a query made with
\* it is rejected by the index and yields no records, the text-generation
\* service is not called again, and the run ends through execute_search and
\* generate_answer with the fixed 'no relevant information' answer.
Malformed(w) ==
  /\ Len(agent[w].llmLog) >= 2
  /\ FilterReply(w).node = "generate_filter"
  /\ ~FilterReply(w).raises
  /\ Strip(FilterReply(w).content) \notin ValidFilters \cup {NO_FILTER}

C23_MalformedFilterAbsorbed ==
  \A w \in Workers :
    Malformed(w) =>
      /\ agent[w].node \in {"execute_search", "generate_answer", "END"}
      /\ LlmNodes(w) = <<"router", "generate_filter">>
      /\ \A i \in 1..Len(agent[w].queryLog) :
           /\ agent[w].queryLog[i].filter_query = Strip(FilterReply(w).content)
           /\ agent[w].queryLog[i].raises
           /\ agent[w].queryLog[i].results = <<>>
      /\ agent[w].node # "execute_search" => agent[w].state.search_results = <<>>
      /\ Ended(w) =>
           /\ agent[w].trace =
                <<"router", "generate_filter", "execute_search", "generate_answer">>
           /\ agent[w].state.final_answer = NoResultsAnswer
           /\ agent[w].returned[1].success
           /\ agent[w].returned[1].answer = NoResultsAnswer

C23_Witness ==
  \E w \in Workers :
    /\ Ended(w)
    /\ Malformed(w)
    /\ FilterReply(w).content = <<"PartnerName = JONI">>
    /\ Len(agent[w].queryLog) = 1
    /\ IncomeJoni \in index

\* C24: two question runs interleaved over an unchanged index are independent:
\* each starts from its own fresh state (its question, both totals 0.0, no
\* results, nothing else), and at every point its task category, retrieved
\* records, totals, final answer, trace, calls and response are those of the
\* same run taken alone with the same replies of the services.
FreshState(question) ==
  [question |-> question, income_total |-> 0, expense_total |-> 0,
   search_results |-> <<>>]

ReplyAt(llm) ==
  IF llm = <<>> THEN LlmFailure
  ELSE [raises |-> llm[1].raises, content |-> llm[1].content]

RestOf(s) == IF s = <<>> THEN <<>> ELSE Tail(s)

\* one node of a run taken alone: reply is what the text-generation service
\* answers when asked, unavailable whether the index fails when queried
StepAlone(a, reply, unavailable) ==
  CASE a.node = "router" ->
         LET x == LlmCall(a, "router", reply)
             b == Visited(x, "router", route_question_node(x.state, reply))
         IN  IF reply.raises THEN Propagate(x, "router")
             ELSE Goto(b, RouterEdges[decide_path(b.state)])
    [] a.node = "generate_filter" ->
         LET x == LlmCall(a, "generate_filter", reply)
             b == Visited(x, "generate_filter", generate_filter_node(x.state, reply))
         IN  IF reply.raises THEN Propagate(x, "generate_filter")
             ELSE Goto(b, Edge("generate_filter"))
    [] a.node = "execute_search" ->
         LET x == IF SkipsSearch(a.state.filter_query) THEN a
                  ELSE QueryCall(a, "execute_search", a.state.filter_query, unavailable)
         IN  Goto(Visited(x, "execute_search",
                          execute_search_node(a.state, index, unavailable)),
                  Edge("execute_search"))
    [] a.node = "search_income" ->
         LET x   == QueryCall(a, "search_income", FilterIngreso, unavailable)
             res == search_income_node(x.state, index, unavailable)
         IN  IF res.raised # "no" THEN Propagate(x, "search_income")
             ELSE Goto(Visited(x, "search_income", res.update), Edge("search_income"))
    [] a.node = "search_expense" ->
         LET x   == QueryCall(a, "search_expense", FilterEgreso, unavailable)
             res == search_expense_node(x.state, index, unavailable)
         IN  IF res.raised # "no" THEN Propagate(x, "search_expense")
             ELSE Goto(Visited(x, "search_expense", res.update), Edge("search_expense"))
    [] a.node = "generate_answer" ->
         LET asked == TemplateAnswer(a.state) = None
             x     == IF asked THEN LlmCall(a, "generate_answer", reply) ELSE a
         IN  IF asked /\ reply.raises THEN Propagate(x, "generate_answer")
             ELSE Goto(Visited(x, "generate_answer",
                               generate_answer_node(x.state, reply)),
                       Edge("generate_answer"))
    [] a.node = "unsupported" ->
         Goto(Visited(a, "unsupported", unsupported_node(a.state)), Edge("unsupported"))

AsksLlm(a) ==
  \/ a.node \in {"router", "generate_filter"}
  \/ a.node = "generate_answer" /\ TemplateAnswer(a.state) = None

QueriesIndex(a) ==
  \/ a.node \in {"search_income", "search_expense"}
  \/ a.node = "execute_search" /\ ~SkipsSearch(a.state.filter_query)

RECURSIVE RunAlone(_, _, _, _)
RunAlone(a, llm, avail, n) ==
  IF n = 0 \/ a.node \in {"END", "raised"} THEN a
  ELSE RunAlone(StepAlone(a, ReplyAt(llm), avail # <<>> /\ avail[1]),
                IF AsksLlm(a) THEN RestOf(llm) ELSE llm,
                IF QueriesIndex(a) THEN RestOf(avail) ELSE avail,
                n - 1)

Alone(w) ==
  RunAlone([NoRun EXCEPT !.node = "router",
                         !.state = FreshState(agent[w].state.question)],
           agent[w].llmLog, Availability(w), Len(agent[w].trace))

C24_RunsIndependent ==
  \A w \in Workers :
    agent[w].node # "idle" =>
      /\ agent[w].trace = <<>> =>
           /\ agent[w].node = "router"
           /\ agent[w].state = FreshState(agent[w].state.question)
      /\ agent[w].node = Alone(w).node
      /\ agent[w].trace = Alone(w).trace
      /\ agent[w].state = Alone(w).state
      /\ agent[w].llmLog = Alone(w).llmLog
      /\ agent[w].queryLog = Alone(w).queryLog
      /\ agent[w].returned = Alone(w).returned

\* both runs are in flight at once, on different paths
C24_Witness ==
  /\ agent[1].node = "generate_answer"
  /\ agent[1].state.task_type = busqueda_simple
  /\ Len(agent[1].state.search_results) = 2
  /\ agent[2].node = "search_expense"
  /\ agent[2].state.task_type = calculo_balance
  /\ agent[2].state.search_results = <<>>
  /\ agent[2].state.income_total = 1000 * Scale

\* C29: once the router has stored the task category, the run takes exactly
\* one branch, fixed by that category alone: the nodes it has run are an
\* initial part of that branch, the node it is at is the next one of the
\* branch, no node of another branch has run, and a run that ends has run
\* the whole branch.
BranchOf(task_type) ==
  IF task_type = busqueda_simple
  THEN <<"router", "generate_filter", "execute_search", "generate_answer">>
  ELSE IF task_type \in {calculo_balance, resumen_general}
  THEN <<"router", "search_income", "search_expense", "generate_answer">>
  ELSE <<"router", "unsupported">>

BranchNodes ==
  {"generate_filter", "execute_search", "search_income", "search_expense",
   "unsupported"}

C29_OneBranch ==
  \A w \in Workers :
    Routed(w) =>
      LET branch == BranchOf(agent[w].state.task_type)
          trace  == agent[w].trace
      IN  /\ Len(trace) <= Len(branch)
          /\ trace = SubSeq(branch, 1, Len(trace))
          /\ \A i \in 1..Len(trace) :
               trace[i] \in BranchNodes => \E j \in 1..Len(branch) : branch[j] = trace[i]
          /\ agent[w].node \notin {"END", "raised"} =>
               /\ Len(trace) < Len(branch)
               /\ agent[w].node = branch[Len(trace) + 1]
          /\ Ended(w) => trace = branch

C29_Witness ==
  \E w \in Workers :
    /\ Ended(w)
    /\ agent[w].state.task_type = resumen_general
    /\ agent[w].trace = <<"router", "search_income", "search_expense", "generate_answer">>
    /\ agent[w].state.question = "cuanto gasto joni?"

\* C30, as claimed: a run in which every call of a service returned has run at
\* most four nodes and none twice, and at END holds a final answer
\* that is a non-empty text, on all three paths.
InFlight(w)   == agent[w].node \notin {"idle", "END", "raised"}
NoNodeTwice(w) ==
  \A i, j \in 1..Len(agent[w].trace) : agent[w].trace[i] = agent[w].trace[j] => i = j
Progresses(w) ==
  /\ RunRaised(w) => LlmFailed(w)
  /\ Len(agent[w].trace) <= 4
  /\ NoNodeTwice(w)

C30_EndsWithNonEmptyAnswer ==
  \A w \in Workers :
    /\ Progresses(w)
    /\ Ended(w) =>
         /\ "final_answer" \in DOMAIN agent[w].state
         /\ agent[w].state.final_answer # <<>>

\* the state of a run at END: a final answer on all three paths, a non-empty
\* fixed text except on the simple path with retrieved records, where it is
\* the content the text-generation service returned
AnswerAtEnd(w) ==
  /\ Progresses(w)
  /\ Ended(w) =>
       /\ "final_answer" \in DOMAIN agent[w].state
       /\ agent[w].returned = Some(ChatResponse(agent[w].state))
       /\ IF OnSimplePath(w) /\ agent[w].state.search_results # <<>>
          THEN agent[w].state.final_answer = agent[w].llmLog[Len(agent[w].llmLog)].content
          ELSE /\ agent[w].state.final_answer # <<>>
               /\ agent[w].state.final_answer \in
                    {UnsupportedAnswer, NoResultsAnswer,
                     BalanceAnswer(agent[w].state.income_total,
                                   agent[w].state.expense_total)}

\* C30, amended: every run, once asked, reaches END unless a call of a service
\* raised; it runs at most four nodes and none twice; at END it holds a final
\* answer on all three paths, which is a non-empty fixed text except on the
\* simple path with retrieved records, where it is whatever content the
\* text-generation service returned, empty when that content is empty.
C30_EndsWithAnswer ==
  /\ [](\A w \in Workers : AnswerAtEnd(w))
  /\ \A w \in Workers :
       (agent[w].node = "router") ~> (Ended(w) \/ (RunRaised(w) /\ LlmFailed(w)))

C30_Witness ==
  \E w \in Workers :
    /\ Ended(w)
    /\ OnSimplePath(w)
    /\ agent[w].state.search_results # <<>>
    /\ agent[w].state.final_answer = <<>>
    /\ agent[w].returned[1].answer = <<>>

\* C31: each path of the question graph changes only its own fields of the
\* state: on the simple path both totals stay 0.0; on the balance path
\* search_results stays empty and filter_query is never set; on the
\* unsupported path only task_type and final_answer are added to the initial
\* fields, which keep their initial values; and no step of a run changes the
\* question.
InitialKeys == {"question", "income_total", "expense_total", "search_results"}

OnUnsupportedPath(w) == Routed(w) /\ ~OnSimplePath(w) /\ ~OnBalancePath(w)

PathFrame(w) ==
  LET st == agent[w].state
  IN  /\ agent[w].node # "idle" => InitialKeys \subseteq DOMAIN st
      /\ OnSimplePath(w) =>
           /\ st.income_total = 0 /\ st.expense_total = 0
           /\ DOMAIN st \subseteq
                InitialKeys \cup {"task_type", "filter_query", "final_answer"}
      /\ OnBalancePath(w) =>
           /\ st.search_results = <<>>
           /\ "filter_query" \notin DOMAIN st
           /\ DOMAIN st \subseteq InitialKeys \cup {"task_type", "final_answer"}
      /\ OnUnsupportedPath(w) =>
           /\ DOMAIN st \subseteq InitialKeys \cup {"task_type", "final_answer"}
           /\ st.income_total = 0 /\ st.expense_total = 0
           /\ st.search_results = <<>>

QuestionKept(w) ==
  agent[w].node # "idle" => agent'[w].state.question = agent[w].state.question

C31_PathFrames ==
  /\ [](\A w \in Workers : PathFrame(w))
  /\ [][\A w \in Workers : QuestionKept(w)]_vars

C31_Witness ==
  \E w \in Workers :
    /\ Ended(w)
    /\ OnBalancePath(w)
    /\ agent[w].state.income_total = 1000 * Scale
    /\ agent[w].state.expense_total = 400 * Scale
    /\ agent[w].state.search_results = <<>>
    /\ agent[w].state.question = "cuanto gasto joni?"

\* C32: the tag of the record a run builds is fixed by the profile that was
\* accepted: it is 'ingreso' exactly when the emitidas result was accepted,
\* and 'egreso' exactly when the emitidas result was not accepted and the
\* recibidas result was; once emitidas is accepted the recibidas profile is
\* not asked, so its answer cannot change the tag; the outcome reports the
\* same tag.
Built(w) == structured_document[w] # None
Record(w) == structured_document[w][1]

C32_TagByProfile ==
  \A w \in Workers :
    Built(w) =>
      LET log == analyzerLog[w]
          tag == Record(w).InvoiceType
      IN  /\ Len(log) >= 1
          /\ tag \in {"ingreso", "egreso"}
          /\ tag = "ingreso" <=> log[1].accepted
          /\ tag = "egreso" <=> (~log[1].accepted /\ Len(log) = 2 /\ log[2].accepted)
          /\ log[1].accepted => Len(log) = 1
          /\ invoice_type[w] = tag
          /\ (Done(w) /\ "invoice_type" \in DOMAIN Result(w)) =>
               Result(w).invoice_type = tag

C32_Witness ==
  \E w \in Workers :
    /\ Done(w) /\ Result(w).success
    /\ Len(analyzerLog[w]) = 2
    /\ analyzerLog[w][1].raises = "no" /\ ~analyzerLog[w][1].accepted
    /\ analyzerLog[w][2].accepted
    /\ Record(w).InvoiceType = "egreso"
    /\ \E d \in index : d.InvoiceType = "ingreso"

\* C33: an unexpected error of the analyzer (no HttpResponseError) on the
\* first profile ends the run at once: the recibidas profile is not tried, no
\* record is built, no write is attempted, the index is what it was at the
\* start, and the outcome has success false with the error's text.
C33_UnexpectedErrorAborts ==
  \A w \in Workers :
    (Len(analyzerLog[w]) >= 1 /\ analyzerLog[w][1].raises = "Exception") =>
      /\ Len(analyzerLog[w]) = 1
      /\ analyzerLog[w][1].model_id = MODELO_EMITIDAS
      /\ ~Built(w)
      /\ NothingWritten(w)
      /\ Done(w)
      /\ Result(w) = [success |-> FALSE, error |-> "analyzer failed"]

C33_Witness ==
  \E w \in Workers :
    /\ Done(w)
    /\ Len(analyzerLog[w]) = 1 /\ analyzerLog[w][1].raises = "Exception"
    /\ startLog[w].index # {}
    /\ index = startLog[w].index

\* C34: a run that has returned reports success true exactly when the index
\* write was made, returned a non-empty result and the first entry of the
\* result succeeded; a write that reports failure or returns an empty result
\* gives success false and leaves the index as it was; and with success true
\* the index is the index of the start with exactly one record added, the
\* record of the run.
WriteSucceeded(w) ==
  /\ uploadLog[w] # <<>>
  /\ ~uploadLog[w][1].raises
  /\ uploadLog[w][1].results # <<>>
  /\ uploadLog[w][1].results[1].succeeded

C34_SuccessIffWritten ==
  \A w \in Workers :
    Done(w) =>
      /\ Result(w).success <=> WriteSucceeded(w)
      /\ (uploadLog[w] # <<>> /\ ~WriteSucceeded(w)) =>
           /\ Result(w).success = FALSE
           /\ index = startLog[w].index
      /\ Result(w).success =>
           /\ Built(w)
           /\ Record(w) \notin startLog[w].index
           /\ index = startLog[w].index \cup {Record(w)}
           /\ Cardinality(index) = Cardinality(startLog[w].index) + 1

C34_Witness ==
  \E w \in Workers :
    /\ Done(w)
    /\ uploadLog[w] # <<>> /\ ~uploadLog[w][1].raises
    /\ uploadLog[w][1].results = <<>>
    /\ Result(w).success = FALSE
    /\ "invoice_type" \in DOMAIN Result(w)
    /\ Cardinality(index) = 1

\* C35: the record of a run is bound to the inputs of that run: its file_hash
\* is the fingerprint the duplicate check of the run queried, which is the
\* fingerprint of the bytes read; its PartnerName is the owner tag the run was
\* called with; its InvoiceType is the invoice_type of the outcome returned;
\* and the record written to the index is this record.
C35_RecordBoundToRun ==
  \A w \in Workers :
    Built(w) =>
      /\ Checked(w)
      /\ Record(w).file_hash = dupLog[w][1].file_hash
      /\ Record(w).file_hash = _calculate_file_hash(document_bytes[w])
      /\ Record(w).PartnerName = partner_name[w]
      /\ (Done(w) /\ uploadLog[w] # <<>> /\ ~uploadLog[w][1].raises) =>
           Result(w).invoice_type = Record(w).InvoiceType
      /\ (Done(w) /\ Result(w).success) =>
           /\ Record(w) \in index
           /\ \A d \in index \ startLog[w].index :
                /\ d.file_hash = dupLog[w][1].file_hash
                /\ d.PartnerName = partner_name[w]
                /\ d.InvoiceType = Result(w).invoice_type

C35_Witness ==
  \E w \in Workers :
    /\ Done(w) /\ Result(w).success
    /\ partner_name[w] = "HERNAN"
    /\ Record(w).PartnerName = "HERNAN"
    /\ \E d \in startLog[w].index :
         d.PartnerName = "JONI" /\ d.file_hash # Record(w).file_hash

\* C36: what _sum_totals reads back from the content of a record written by
\* an ingestion is the InvoiceTotal stored in the record; so a balance
\* question put after a sequence of ingestions, whose two queries the index
\* answered, holds as income the sum of InvoiceTotal over the 'ingreso'
\* records of the index and as expense the sum over the 'egreso' records,
\* and its answer is the balance text of these two sums.
RECURSIVE SumInvoiceTotal(_)
SumInvoiceTotal(docs) ==
  IF docs = {} THEN 0
  ELSE LET d == CHOOSE x \in docs : TRUE
       IN  d.InvoiceTotal + SumInvoiceTotal(docs \ {d})

Tagged(type) == {d \in index : d.InvoiceType = type}

C36_RoundTrip ==
  /\ \A d \in index :
       _sum_totals(<<d>>) = [raised |-> "no", value |-> d.InvoiceTotal]
  /\ \A w \in Workers :
       (OnBalancePath(w) /\ ~QueryFailed(w)) =>
         /\ Len(agent[w].queryLog) >= 1 =>
              /\ agent[w].node # "raised"
              /\ agent[w].state.income_total = SumInvoiceTotal(Tagged("ingreso"))
         /\ Len(agent[w].queryLog) = 2 =>
              agent[w].state.expense_total = SumInvoiceTotal(Tagged("egreso"))
         /\ Ended(w) =>
              agent[w].state.final_answer =
                BalanceAnswer(SumInvoiceTotal(Tagged("ingreso")),
                              SumInvoiceTotal(Tagged("egreso")))

\* an ingestion of each tag, with amounts that differ, then the question
C36_Witness ==
  \E w \in Workers :
    /\ Ended(w) /\ OnBalancePath(w) /\ ~QueryFailed(w)
    /\ Cardinality(index) = 2
    /\ \E d \in Tagged("ingreso") : d.InvoiceTotal # 0
    /\ Tagged("egreso") # {}
    /\ agent[w].state.income_total # agent[w].state.expense_total

\* C37: every ingestion returns an outcome after a bounded number of calls of
\* the services: a run makes at most one duplicate-check query, at most two
\* analyzer calls and at most one index write; every step of a run makes
\* exactly one of these calls and moves the run forward; and a run that has
\* started returns.
Calls(w) == Len(dupLog[w]) + Len(analyzerLog[w]) + Len(uploadLog[w])

BoundedCalls(w) ==
  /\ Len(dupLog[w]) <= 1
  /\ Len(analyzerLog[w]) <= 2
  /\ Len(uploadLog[w]) <= 1
  /\ pc[w] \in {"idle", "check_duplicate", "analyze_emitidas", "analyze_recibidas",
                "upload", "done"}
  /\ pc[w] = "done" => outcome[w] # None

StepCalls(w) ==
  (run_no'[w] = run_no[w] /\ pc[w] \notin {"idle", "done"}) =>
    /\ Calls(w)' = Calls(w) + 1
    /\ Rank(pc'[w]) > Rank(pc[w])

C37_ReturnsAfterBoundedCalls ==
  /\ [](\A w \in Workers : BoundedCalls(w))
  /\ [][\A w \in Workers : StepCalls(w)]_vars
  /\ \A w \in Workers : (pc[w] \notin {"idle", "done"}) ~> Done(w)

C37_Witness ==
  \E w \in Workers :
    /\ Done(w) /\ Result(w).success
    /\ Calls(w) = 4
    /\ Len(dupLog[w]) = 1 /\ Len(analyzerLog[w]) = 2 /\ Len(uploadLog[w]) = 1
    /\ analyzerLog[w][1].raises = "HttpResponseError"

\* C38: a run on the simple path that has passed execute_search has queried
\* the index exactly when the filter synthesizer's reply, trimmed, is
\* non-empty and is not 'NO_FILTER'; it has queried at most once, in
\* execute_search, with the trimmed reply as the filter; and the state holds
\* as search_results exactly the list that query returned, or the empty list
\* when no query was made.
Searched(w) ==
  \E i \in 1..Len(agent[w].trace) : agent[w].trace[i] = "execute_search"

C38_QueryIffFilter ==
  \A w \in Workers :
    (OnSimplePath(w) /\ Searched(w)) =>
      LET trimmed == Strip(FilterReply(w).content)
          log     == agent[w].queryLog
      IN  /\ FilterReply(w).node = "generate_filter"
          /\ Len(log) <= 1
          /\ log # <<>> <=> (trimmed # <<>> /\ trimmed # NO_FILTER)
          /\ log # <<>> =>
               /\ log[1].node = "execute_search"
               /\ log[1].filter_query = trimmed
               /\ trimmed[1] \notin Whitespace
               /\ trimmed[Len(trimmed)] \notin Whitespace
               /\ agent[w].state.search_results = log[1].results
          /\ log = <<>> => agent[w].state.search_results = <<>>

C38_Witness ==
  \E w \in Workers :
    /\ OnSimplePath(w) /\ Searched(w)
    /\ FilterReply(w).content = <<"\n">> \o FilterJoniEgreso
    /\ agent[w].queryLog[1].filter_query = FilterJoniEgreso
    /\ agent[w].state.search_results = <<ExpenseJoni>>

====
